---- MODULE Spec2Model ----
(***************************************************************************)
(* Metrics agent of go-musthave-devops-trainer: the scope tree             *)
(* (internal/agent scope), its counters and gauges (stats.go), the         *)
(* identity codec (keymap.go) and the timed report loop with Close.        *)
(*                                                                         *)
(* Strings are sequences of one-character strings.  A Go map value is a    *)
(* record [nil, kv]: nil tells a nil map from an empty one, kv is the      *)
(* key -> value function.  Every goroutine is a process with a program     *)
(* counter pc[p] and a frame fr[p] holding the locals of the call it runs. *)
(* Each step is one access to shared memory (an atomic operation, a mutex  *)
(* operation together with the map accesses it protects, or a reporter     *)
(* call).                                                                  *)
(***************************************************************************)
EXTENDS Integers, Sequences, FiniteSets, TLC

VARIABLES
    fdb,        \* the server's file store (type FDB)
    scopes,     \* the scope objects allocated so far (type scope)
    registry,   \* scopeRegistry.subscopes: identity string -> scope
    registryMu, \* scopeRegistry.Mutex: the process holding it
    ctrs,       \* the counter objects allocated so far (type counter)
    ggs,        \* the gauge objects allocated so far (type gauge)
    hasReporter,\* opts.Reporter # nil
    reporter,   \* the simpleReporter passed as opts.Reporter
    keyDB,      \* the pools of KeyMap: buffers and key slices
    pc,         \* position of every process
    fr,         \* locals of the call every process runs
    hist        \* history of the run (calls made, values emitted)

vars == <<scopes, registry, registryMu, ctrs, ggs, hasReporter, reporter, keyDB, fdb, pc,
          fr, hist>>

-----------------------------------------------------------------------------
(* Bounds of the model. *)

NumThreads == 2     \* goroutines of the embedding program calling into the core
MaxScopes == 3      \* scope objects allocated in one run
MaxIncs == 3        \* Inc calls in one run
MaxUpdates == 2     \* Update calls in one run
PoolSize == 1       \* objects each pool of KeyMap is created with

Timer == 0
Threads == 1 .. NumThreads
Procs == {Timer} \cup Threads
NoProc == -1
Root == 1

-----------------------------------------------------------------------------
(* Strings. *)

CharCode ==
    ("+" :> 43) @@ ("," :> 44) @@ ("." :> 46) @@ ("1" :> 49) @@ ("2" :> 50)
    @@ ("=" :> 61) @@ ("a" :> 97) @@ ("b" :> 98) @@ ("c" :> 99)
    @@ ("g" :> 103) @@ ("x" :> 120)

RECURSIVE StrLess(_, _)
StrLess(a, b) ==
    IF a = <<>> THEN b # <<>>
    ELSE IF b = <<>> THEN FALSE
    ELSE IF Head(a) = Head(b) THEN StrLess(Tail(a), Tail(b))
    ELSE CharCode[Head(a)] < CharCode[Head(b)]

RECURSIVE SortStrings(_)
SortStrings(S) ==
    IF S = {} THEN <<>>
    ELSE LET m == CHOOSE k \in S : \A o \in S \ {k} : StrLess(k, o)
         IN  <<m>> \o SortStrings(S \ {m})

emptyString == <<>>
nameSplitter == <<"=">>
pairSplitter == <<",">>
prefixSplitter == <<"+">>
DefaultSeparator == <<".">>

(* Go maps. *)
NilMap == [nil |-> TRUE, kv |-> <<>>]
MakeMap(kv) == [nil |-> FALSE, kv |-> kv]
MapLen(m) == Cardinality(DOMAIN m.kv)

RECURSIVE WritePairs(_, _, _, _)
WritePairs(keys, stringMap, i, sortedKeysLen) ==
    IF i > sortedKeysLen THEN <<>>
    ELSE keys[i] \o nameSplitter \o stringMap.kv[keys[i]]
         \o (IF i # sortedKeysLen THEN pairSplitter ELSE <<>>)
         \o WritePairs(keys, stringMap, i + 1, sortedKeysLen)

KeyMap(prefix, stringMap) ==
    LET keys == SortStrings(DOMAIN stringMap.kv)
        head == IF prefix # emptyString THEN prefix \o prefixSplitter ELSE <<>>
    IN  head \o WritePairs(keys, stringMap, 1, MapLen(stringMap))

(* KeyMap with the order of the range over stringMap made explicit: keys   *)
(* is the slice the loop appends to, in the order the range yields.        *)
RangeOrders(stringMap) ==
    {o \in [1 .. MapLen(stringMap) -> DOMAIN stringMap.kv] :
        \A i, j \in DOMAIN o : i # j => o[i] # o[j]}

(* sort.Strings(keys), as an insertion sort of the slice. *)
RECURSIVE InsertKey(_, _)
InsertKey(k, sorted) ==
    IF sorted = <<>> THEN <<k>>
    ELSE IF StrLess(k, Head(sorted)) THEN <<k>> \o sorted
    ELSE <<Head(sorted)>> \o InsertKey(k, Tail(sorted))

(* A variant of sort.Strings that leaves the slice as it is. *)
SortKeys_Unsorted(keys) == keys

RECURSIVE SortKeys(_)
SortKeys(keys) ==
    IF keys = <<>> THEN <<>>
    ELSE InsertKey(keys[Len(keys)], SortKeys(SubSeq(keys, 1, Len(keys) - 1)))

(* A variant of KeyMap that writes the prefix without prefixSplitter. *)
KeyMapIn_NoPrefixSplitter(prefix, stringMap, order) ==
    LET keys == SortKeys(order)
        head == IF prefix # emptyString THEN prefix ELSE <<>>
    IN  head \o WritePairs(keys, stringMap, 1, MapLen(stringMap))

KeyMapIn(prefix, stringMap, order) ==
    LET keys == SortKeys(order)
        head == IF prefix # emptyString THEN prefix \o prefixSplitter ELSE <<>>
    IN  head \o WritePairs(keys, stringMap, 1, MapLen(stringMap))

copyMap(tags) == MakeMap(tags.kv)

(* A variant of mergeRightTags that returns the right map when it is empty. *)
mergeRightTags_DropsLeft(tagsLeft, tagsRight) ==
    IF tagsLeft.nil /\ tagsRight.nil THEN NilMap
    ELSE IF MapLen(tagsRight) = 0 THEN tagsRight
    ELSE IF MapLen(tagsLeft) = 0 THEN tagsRight
    ELSE MakeMap([k \in DOMAIN tagsLeft.kv \cup DOMAIN tagsRight.kv |->
                    IF k \in DOMAIN tagsRight.kv THEN tagsRight.kv[k]
                    ELSE tagsLeft.kv[k]])

(* A variant of mergeRightTags whose second loop skips the keys already set. *)
mergeRightTags_LeftWins(tagsLeft, tagsRight) ==
    IF tagsLeft.nil /\ tagsRight.nil THEN NilMap
    ELSE IF MapLen(tagsRight) = 0 THEN tagsLeft
    ELSE IF MapLen(tagsLeft) = 0 THEN tagsRight
    ELSE MakeMap([k \in DOMAIN tagsLeft.kv \cup DOMAIN tagsRight.kv |->
                    IF k \in DOMAIN tagsLeft.kv THEN tagsLeft.kv[k]
                    ELSE tagsRight.kv[k]])

mergeRightTags(tagsLeft, tagsRight) ==
    IF tagsLeft.nil /\ tagsRight.nil THEN NilMap
    ELSE IF MapLen(tagsRight) = 0 THEN tagsLeft
    ELSE IF MapLen(tagsLeft) = 0 THEN tagsRight
    ELSE MakeMap([k \in DOMAIN tagsLeft.kv \cup DOMAIN tagsRight.kv |->
                    IF k \in DOMAIN tagsRight.kv THEN tagsRight.kv[k]
                    ELSE tagsLeft.kv[k]])

(* A variant of fullyQualifiedName without the test of an empty prefix. *)
fullyQualifiedName_AlwaysJoin(s, name) == s.prefix \o s.separator \o name

fullyQualifiedName(s, name) ==
    IF Len(s.prefix) = 0 THEN name ELSE s.prefix \o s.separator \o name

-----------------------------------------------------------------------------
(* Inputs the embedding program passes. *)

CounterNames == {<<"c">>}
GaugeNames == {<<"g">>}
SubNames == {<<"x">>}
TagInputs == {NilMap, MakeMap(<<>>), MakeMap(<<"a">> :> <<"1">>)}
ExtraInputs ==
    TagInputs \cup {MakeMap((<<"a">> :> <<"2">>) @@ (<<"b">> :> <<"2">>)),
                    MakeMap(<<"b">> :> <<"1">>)}
IncValues == {1, 2}

(* float64 values and their IEEE-754 bit patterns, as <<high word, low word>>. *)
GaugeValues == {"0.0", "5.0", "7.5"}
Float64bits(v) ==
    CASE v = "0.0" -> <<0, 0>>
      [] v = "5.0" -> <<1075052544, 0>>
      [] v = "7.5" -> <<1075707904, 0>>
Float64frombits(b) == CHOOSE v \in GaugeValues : Float64bits(v) = b
UpdateValues == {"5.0", "7.5"}

-----------------------------------------------------------------------------
(* Construction. *)

RootPrefixes == {<<>>}
RootTags == {NilMap}
reporterIsCloser == FALSE   \* simpleReporter has no Close method

(* NewReporter (cmd/agent/main.go): metrics is the batch not yet sent. The  *)
(* flush count of the reporter is only logged and is left out.             *)
NewReporter == [metrics |-> <<>>]

(* newKeyDB: both pools are filled. bufs and arrays are the objects alive  *)
(* (the bytes of every buffer, the backing array of every key slice) by    *)
(* address; bufferDB.values holds buffer addresses, stringsDB.values slice *)
(* headers [array, len].                                                   *)
newKeyDB(size) ==
    [bufferDB |-> [i \in 1 .. size |-> i],
     stringsDB |-> [i \in 1 .. size |-> [array |-> i, len |-> 0]],
     bufs |-> [i \in 1 .. size |-> <<>>],
     arrays |-> [i \in 1 .. size |-> <<>>]]

(* NewFDB with no options: both maps are empty, updateCount is 0 and the
   embedded mutex is free.  filename is empty, so nothing is loaded and no
   saving goroutine runs.  tstamp is written by every update and read by no
   update; it is left out. *)
NewFDB == [mu |-> NoProc, counters |-> <<>>, gauges |-> <<>>, updateCount |-> 0]

Fr0 ==
    [op |-> "none", s |-> 0, todo |-> {}, ss |-> 0, names |-> {}, name |-> <<>>,
     obj |-> 0, curr |-> 0, prev |-> 0, delta |-> 0, log |-> <<>>,
     prefix |-> <<>>, tags |-> NilMap, key |-> <<>>, ret |-> 0, x |-> "0.0",
     first |-> FALSE, quiet |-> TRUE, start |-> <<>>, expect |-> 0,
     inflight |-> {}, waited |-> FALSE, path |-> "none", overlap |-> FALSE,
     err |-> "none", call |-> "none", extra |-> NilMap, order |-> <<>>,
     snap |-> [counters |-> <<>>, gauges |-> <<>>], batch |-> <<>>,
     postErr |-> "none", keys |-> [array |-> 0, len |-> 0], buf |-> 0,
     fresh |-> {}, id |-> <<>>]

newCounter == [prev |-> 0, curr |-> 0]
newGauge == [updated |-> 0, curr |-> <<0, 0>>]

newRootScope(optsPrefix, optsTags, optsSeparator) ==
    LET tags == IF optsTags.nil THEN MakeMap(<<>>) ELSE optsTags
        sep == IF optsSeparator = emptyString THEN DefaultSeparator ELSE optsSeparator
    IN  [prefix |-> optsPrefix, separator |-> sep, tags |-> copyMap(tags),
         closed |-> FALSE, quit |-> "open", statusMu |-> NoProc,
         cm |-> NoProc, gm |-> NoProc, counters |-> <<>>, gauges |-> <<>>]

Hist0 ==
    [incTotal |-> <<>>, emitted |-> <<>>, sinceRead |-> <<>>, lastEmit |-> <<>>,
     upd |-> <<>>, last |-> <<>>, gaugeEmit |-> <<>>, gaugeCalls |-> <<>>,
     incCalls |-> 0, updCalls |-> 0, finalPasses |-> 0, quitCloses |-> 0,
     panicked |-> FALSE, closeReturned |-> FALSE, interval |-> "unrecorded",
     storeSum |-> <<>>, storeLast |-> <<>>, storeCalls |-> 0, storeRet |-> <<>>]

Init ==
    /\ \E optsPrefix \in RootPrefixes, optsTags \in RootTags :
          LET s == newRootScope(optsPrefix, optsTags, emptyString)
          IN  /\ scopes = <<s>>
              /\ registry = (KeyMap(s.prefix, s.tags) :> Root)
    /\ registryMu = NoProc
    /\ ctrs = <<>>
    /\ ggs = <<>>
    /\ hasReporter \in BOOLEAN
    /\ reporter = NewReporter
    /\ fdb = NewFDB
    /\ keyDB = newKeyDB(PoolSize)
    /\ \E running \in BOOLEAN :
          pc = [p \in Procs |->
                  IF p = Timer THEN (IF running THEN "loop_select" ELSE "none")
                  ELSE "idle"]
    /\ fr = [p \in Procs |-> IF p = Timer THEN [Fr0 EXCEPT !.op = "Loop", !.s = Root]
                             ELSE Fr0]
    /\ hist = Hist0

-----------------------------------------------------------------------------
(* Helpers on processes. *)

TraverseLocs ==
    {"rr_range", "rep_c", "cv_curr", "cv_prev", "cv_store", "cr_call", "rep_gl",
     "rep_g", "gr_swap", "gr_call", "rep_flush", "rf_post", "rf_ret", "rr_unlock"}

InPass(q) == pc[q] \in TraverseLocs

(* The frame of a process that has returned from its call. *)
Returned(p) == IF p = Timer THEN [Fr0 EXCEPT !.op = "Loop", !.s = Root] ELSE Fr0

(* An Update of gauge g is between its two stores. *)
Updating(q, g) == pc[q] = "upd_flag" /\ fr[q].obj = g

(* Frames after a producer step: every pass in progress has seen concurrent activity. *)
Disturbed(f) == [q \in Procs |-> IF InPass(q) THEN [f[q] EXCEPT !.quiet = FALSE] ELSE f[q]]

-----------------------------------------------------------------------------
(* counter.Inc and gauge.Update (stats.go). Inc is a single atomic add, so  *)
(* its caller has no position of its own: any goroutine may make the call  *)
(* at any time.                                                            *)

(* A variant of Inc that waits for the lock of the map holding the counter. *)
Inc_UnderLock(c, v) ==
    /\ hist.incCalls < MaxIncs
    /\ \A s \in 1 .. Len(scopes) :
          (\E name \in DOMAIN scopes[s].counters : scopes[s].counters[name] = c)
             => scopes[s].cm = NoProc
    /\ ctrs' = [ctrs EXCEPT ![c].curr = @ + v]
    /\ hist' = [hist EXCEPT !.incTotal[c] = @ + v, !.sinceRead[c] = @ + v,
                            !.incCalls = @ + 1]
    /\ fr' = Disturbed(fr)
    /\ UNCHANGED <<scopes, registry, registryMu, ggs, hasReporter, fdb, reporter, keyDB, pc>>

Inc(c, v) ==
    /\ hist.incCalls < MaxIncs
    /\ ctrs' = [ctrs EXCEPT ![c].curr = @ + v]
    /\ hist' = [hist EXCEPT !.incTotal[c] = @ + v, !.sinceRead[c] = @ + v,
                            !.incCalls = @ + 1]
    /\ fr' = Disturbed(fr)
    /\ UNCHANGED <<scopes, registry, registryMu, ggs, hasReporter, fdb, reporter, keyDB, pc>>

(* A variant of gauge.Update that raises the flag without storing the value. *)
UpdateStore_FlagOnly(p, g, x) ==
    /\ pc[p] = "idle"
    /\ hist.updCalls < MaxUpdates
    /\ ggs' = [ggs EXCEPT ![g].updated = 1]
    /\ pc' = [pc EXCEPT ![p] = "upd_flag"]
    /\ fr' = Disturbed([q \in Procs |->
                IF q = p
                THEN [Fr0 EXCEPT !.op = "Update", !.obj = g, !.x = x,
                                 !.overlap = \E r \in Procs : Updating(r, g)]
                ELSE IF Updating(q, g) THEN [fr[q] EXCEPT !.overlap = TRUE]
                ELSE fr[q]])
    /\ hist' = [hist EXCEPT !.updCalls = @ + 1]
    /\ UNCHANGED <<scopes, registry, registryMu, ctrs, hasReporter, fdb, reporter, keyDB>>

UpdateStore(p, g, x) ==
    /\ pc[p] = "idle"
    /\ hist.updCalls < MaxUpdates
    /\ ggs' = [ggs EXCEPT ![g].curr = Float64bits(x)]
    /\ pc' = [pc EXCEPT ![p] = "upd_flag"]
    /\ fr' = Disturbed([q \in Procs |->
                IF q = p
                THEN [Fr0 EXCEPT !.op = "Update", !.obj = g, !.x = x,
                                 !.overlap = \E r \in Procs : Updating(r, g)]
                ELSE IF Updating(q, g) THEN [fr[q] EXCEPT !.overlap = TRUE]
                ELSE fr[q]])
    /\ hist' = [hist EXCEPT !.updCalls = @ + 1]
    /\ UNCHANGED <<scopes, registry, registryMu, ctrs, hasReporter, fdb, reporter, keyDB>>

(* A variant of gauge.Update that returns without setting updated. *)
UpdateFlag_NoFlag(p) ==
    /\ pc[p] = "upd_flag"
    /\ LET seen == IF fr[p].overlap THEN "any" ELSE fr[p].x
       IN  hist' = [hist EXCEPT !.upd[fr[p].obj] = seen, !.last[fr[p].obj] = seen]
    /\ pc' = [pc EXCEPT ![p] = "idle"]
    /\ fr' = Disturbed([fr EXCEPT ![p] = Fr0])
    /\ UNCHANGED <<scopes, registry, registryMu, ctrs, ggs, hasReporter, fdb, reporter, keyDB>>

UpdateFlag(p) ==
    /\ pc[p] = "upd_flag"
    /\ ggs' = [ggs EXCEPT ![fr[p].obj].updated = 1]
    /\ LET seen == IF fr[p].overlap THEN "any" ELSE fr[p].x
       IN  hist' = [hist EXCEPT !.upd[fr[p].obj] = seen, !.last[fr[p].obj] = seen]
    /\ pc' = [pc EXCEPT ![p] = "idle"]
    /\ fr' = Disturbed([fr EXCEPT ![p] = Fr0])
    /\ UNCHANGED <<scopes, registry, registryMu, ctrs, hasReporter, fdb, reporter, keyDB>>

-----------------------------------------------------------------------------
(* scope.Counter / scope.counter and scope.Gauge / scope.gauge. *)

CounterLookup(p, s, name) ==
    /\ pc[p] = "idle"
    /\ scopes[s].cm = NoProc
    /\ IF name \in DOMAIN scopes[s].counters
       THEN /\ pc' = [pc EXCEPT ![p] = "ctr_ret"]
            /\ fr' = [fr EXCEPT ![p] = [Fr0 EXCEPT !.op = "Counter", !.s = s,
                                          !.name = name, !.path = "found",
                                          !.ret = scopes[s].counters[name]]]
       ELSE /\ pc' = [pc EXCEPT ![p] = "ctr_create"]
            /\ fr' = [fr EXCEPT ![p] = [Fr0 EXCEPT !.op = "Counter", !.s = s,
                                          !.name = name]]
    /\ UNCHANGED <<scopes, registry, registryMu, ctrs, ggs, hasReporter, fdb, reporter, keyDB,
                   hist>>

(* A variant of scope.counter that stores a new counter without looking again. *)
CounterCreate_NoSecondLookup(p) ==
    /\ pc[p] = "ctr_create"
    /\ LET s == fr[p].s
           name == fr[p].name
       IN  /\ scopes[s].cm = NoProc
           /\ ctrs' = Append(ctrs, newCounter)
           /\ scopes' = [scopes EXCEPT ![s].counters =
                            [n \in DOMAIN @ \cup {name} |->
                               IF n = name THEN Len(ctrs) + 1 ELSE @[n]]]
           /\ hist' = [hist EXCEPT !.incTotal = Append(@, 0),
                                   !.emitted = Append(@, 0),
                                   !.sinceRead = Append(@, 0),
                                   !.lastEmit = Append(@, 0)]
           /\ fr' = [fr EXCEPT ![p].ret = Len(ctrs) + 1, ![p].path = "created"]
    /\ pc' = [pc EXCEPT ![p] = "ctr_ret"]
    /\ UNCHANGED <<registry, registryMu, ggs, hasReporter, fdb, reporter, keyDB>>

(* scope.counter: the second lookup and the creation, under s.cm. *)
CounterCreate(p) ==
    /\ pc[p] = "ctr_create"
    /\ LET s == fr[p].s
           name == fr[p].name
       IN  /\ scopes[s].cm = NoProc
           /\ IF name \in DOMAIN scopes[s].counters
              THEN /\ fr' = [fr EXCEPT ![p].ret = scopes[s].counters[name],
                                       ![p].path = "lost"]
                   /\ UNCHANGED <<scopes, ctrs, hist>>
              ELSE /\ ctrs' = Append(ctrs, newCounter)
                   /\ scopes' = [scopes EXCEPT ![s].counters = @ @@ (name :> Len(ctrs) + 1)]
                   /\ hist' = [hist EXCEPT !.incTotal = Append(@, 0),
                                           !.emitted = Append(@, 0),
                                           !.sinceRead = Append(@, 0),
                                           !.lastEmit = Append(@, 0)]
                   /\ fr' = [fr EXCEPT ![p].ret = Len(ctrs) + 1, ![p].path = "created"]
    /\ pc' = [pc EXCEPT ![p] = "ctr_ret"]
    /\ UNCHANGED <<registry, registryMu, ggs, hasReporter, fdb, reporter, keyDB>>

(* scope.Gauge: the lookup under s.gm. *)
GaugeLookup(p, s, name) ==
    /\ pc[p] = "idle"
    /\ scopes[s].gm = NoProc
    /\ IF name \in DOMAIN scopes[s].gauges
       THEN /\ pc' = [pc EXCEPT ![p] = "gg_ret"]
            /\ fr' = [fr EXCEPT ![p] = [Fr0 EXCEPT !.op = "Gauge", !.s = s,
                                          !.name = name, !.path = "found",
                                          !.ret = scopes[s].gauges[name]]]
       ELSE /\ pc' = [pc EXCEPT ![p] = "gg_create"]
            /\ fr' = [fr EXCEPT ![p] = [Fr0 EXCEPT !.op = "Gauge", !.s = s,
                                          !.name = name]]
    /\ UNCHANGED <<scopes, registry, registryMu, ctrs, ggs, hasReporter, fdb, reporter, keyDB,
                   hist>>

(* scope.gauge: the second lookup and the creation, under s.gm. *)
GaugeCreate(p) ==
    /\ pc[p] = "gg_create"
    /\ LET s == fr[p].s
           name == fr[p].name
       IN  /\ scopes[s].gm = NoProc
           /\ IF name \in DOMAIN scopes[s].gauges
              THEN /\ fr' = [fr EXCEPT ![p].ret = scopes[s].gauges[name],
                                       ![p].path = "lost"]
                   /\ UNCHANGED <<scopes, ggs, hist>>
              ELSE /\ ggs' = Append(ggs, newGauge)
                   /\ scopes' = [scopes EXCEPT ![s].gauges = @ @@ (name :> Len(ggs) + 1)]
                   /\ hist' = [hist EXCEPT !.upd = Append(@, "none"),
                                           !.last = Append(@, "none"),
                                           !.gaugeEmit = Append(@, "none"),
                                           !.gaugeCalls = Append(@, 0)]
                   /\ fr' = [fr EXCEPT ![p].ret = Len(ggs) + 1, ![p].path = "created"]
    /\ pc' = [pc EXCEPT ![p] = "gg_ret"]
    /\ UNCHANGED <<registry, registryMu, ctrs, hasReporter, fdb, reporter, keyDB>>

(* The handle is handed to the caller. *)
MetricReturn(p) ==
    /\ pc[p] \in {"ctr_ret", "gg_ret"}
    /\ pc' = [pc EXCEPT ![p] = "idle"]
    /\ fr' = [fr EXCEPT ![p] = Fr0]
    /\ UNCHANGED <<scopes, registry, registryMu, ctrs, ggs, hasReporter, fdb, reporter, keyDB,
                   hist>>

-----------------------------------------------------------------------------
(* The flush pass: scope.Report, scope.reportLoopRun,                      *)
(* scope.reportRegistryWithLock, scope.report, counter.report,             *)
(* counter.value, gauge.report.                                            *)

(* Reporter calls, as the reporter receives them. obj is the metric object *)
(* the call is made for (known to the history only).                       *)
ReportCounterCall(name, tags, value, obj) ==
    [call |-> "ReportCounter", name |-> name, tags |-> tags, value |-> value, obj |-> obj]
ReportGaugeCall(name, tags, value, obj) ==
    [call |-> "ReportGauge", name |-> name, tags |-> tags, value |-> value, obj |-> obj]
FlushCall == [call |-> "Flush", name |-> <<>>, tags |-> NilMap, value |-> 0, obj |-> 0]

(* simpleReporter (cmd/agent/main.go). The reporter is created with the    *)
(* default key "", for which hash returns "". obj as above.                *)
Metrics(ID, MType, v, obj) ==
    [ID |-> ID, MType |-> MType, v |-> v, Hash |-> emptyString, obj |-> obj]

(* ReportCounter and ReportGauge: r.metrics = append(r.metrics, ...); the  *)
(* tags are not sent.                                                      *)
ReportCounter(r, name, tags, delta, obj) ==
    [r EXCEPT !.metrics = Append(@, Metrics(name, "counter", delta, obj))]
ReportGauge(r, name, tags, value, obj) ==
    [r EXCEPT !.metrics = Append(@, Metrics(name, "gauge", value, obj))]

(* What client.Post returns. *)
PostOutcomes == {"nil", "error"}

(* scope.Report: the call of reportLoopRun. *)
Report(p, s) ==
    /\ p \in Threads
    /\ pc[p] = "idle"
    /\ pc' = [pc EXCEPT ![p] = "rl_lock"]
    /\ fr' = [fr EXCEPT ![p] = [Fr0 EXCEPT !.op = "Report", !.s = s]]
    /\ UNCHANGED <<scopes, registry, registryMu, ctrs, ggs, hasReporter, fdb, reporter, keyDB,
                   hist>>

(* A variant of reportLoopRun without the test of closed. *)
reportLoopRun_NoClosedTest(p) ==
    /\ pc[p] = "rl_lock"
    /\ LET s == fr[p].s
       IN  /\ scopes[s].statusMu = NoProc
           /\ scopes' = [scopes EXCEPT ![s].statusMu = p]
           /\ pc' = [pc EXCEPT ![p] = "rr_lock"]
           /\ UNCHANGED fr
    /\ UNCHANGED <<registry, registryMu, ctrs, ggs, hasReporter, fdb, reporter, keyDB, hist>>

(* reportLoopRun: s.status.Lock(); if s.status.closed { return }. *)
reportLoopRun(p) ==
    /\ pc[p] = "rl_lock"
    /\ LET s == fr[p].s
       IN  /\ scopes[s].statusMu = NoProc
           /\ IF scopes[s].closed
              THEN /\ pc' = [pc EXCEPT ![p] = IF p = Timer THEN "loop_select" ELSE "idle"]
                   /\ fr' = [fr EXCEPT ![p] = Returned(p)]
                   /\ UNCHANGED scopes
              ELSE /\ scopes' = [scopes EXCEPT ![s].statusMu = p]
                   /\ pc' = [pc EXCEPT ![p] = "rr_lock"]
                   /\ UNCHANGED fr
    /\ UNCHANGED <<registry, registryMu, ctrs, ggs, hasReporter, fdb, reporter, keyDB, hist>>

(* What the history knows of the metrics when a pass starts. *)
PassStart ==
    [c |-> hist.sinceRead, g |-> hist.upd,
     gv |-> [g \in 1 .. Len(ggs) |-> ggs[g].curr]]

(* A variant of reportRegistryWithLock that does not wait for the registry lock. *)
reportRegistryWithLock_NoWait(p) ==
    /\ pc[p] = "rr_lock"
    /\ registryMu' = p
    /\ fr' = [fr EXCEPT ![p].todo = IF hasReporter
                                    THEN {registry[k] : k \in DOMAIN registry} ELSE {},
                        ![p].start = PassStart,
                        ![p].quiet = \A q \in Procs : pc[q] # "upd_flag"]
    /\ pc' = [pc EXCEPT ![p] = IF hasReporter THEN "rr_range" ELSE "rr_unlock"]
    /\ hist' = [hist EXCEPT !.finalPasses = IF fr[p].op = "Close" THEN @ + 1 ELSE @]
    /\ UNCHANGED <<scopes, registry, ctrs, ggs, hasReporter, fdb, reporter, keyDB>>

(* reportRegistryWithLock: s.registry.Lock(); range over the subscopes. *)
reportRegistryWithLock(p) ==
    /\ pc[p] = "rr_lock"
    /\ registryMu = NoProc
    /\ registryMu' = p
    /\ fr' = [fr EXCEPT ![p].todo = IF hasReporter
                                    THEN {registry[k] : k \in DOMAIN registry} ELSE {},
                        ![p].start = PassStart,
                        ![p].quiet = \A q \in Procs : pc[q] # "upd_flag"]
    /\ pc' = [pc EXCEPT ![p] = IF hasReporter THEN "rr_range" ELSE "rr_unlock"]
    /\ hist' = [hist EXCEPT !.finalPasses = IF fr[p].op = "Close" THEN @ + 1 ELSE @]
    /\ UNCHANGED <<scopes, registry, ctrs, ggs, hasReporter, fdb, reporter, keyDB>>

(* The next subscope of the range, in any order; scope.report: s.cm.Lock(). *)
RangeSubscopes(p) ==
    /\ pc[p] = "rr_range"
    /\ IF fr[p].todo = {}
       THEN /\ pc' = [pc EXCEPT ![p] = "rr_unlock"]
            /\ UNCHANGED <<scopes, fr>>
       ELSE \E ss \in fr[p].todo :
              /\ scopes[ss].cm = NoProc
              /\ scopes' = [scopes EXCEPT ![ss].cm = p]
              /\ fr' = [fr EXCEPT ![p].ss = ss, ![p].todo = @ \ {ss},
                                  ![p].names = DOMAIN scopes[ss].counters]
              /\ pc' = [pc EXCEPT ![p] = "rep_c"]
    /\ UNCHANGED <<registry, registryMu, ctrs, ggs, hasReporter, fdb, reporter, keyDB, hist>>

(* The next counter of the range; after the last one s.cm.Unlock(). *)
RangeCounters(p) ==
    /\ pc[p] = "rep_c"
    /\ LET ss == fr[p].ss
       IN  IF fr[p].names = {}
           THEN /\ scopes' = [scopes EXCEPT ![ss].cm = NoProc]
                /\ pc' = [pc EXCEPT ![p] = "rep_gl"]
                /\ UNCHANGED fr
           ELSE \E name \in fr[p].names :
                  /\ fr' = [fr EXCEPT ![p].name = name, ![p].names = @ \ {name},
                                      ![p].obj = scopes[ss].counters[name]]
                  /\ pc' = [pc EXCEPT ![p] = "cv_curr"]
                  /\ UNCHANGED scopes
    /\ UNCHANGED <<registry, registryMu, ctrs, ggs, hasReporter, fdb, reporter, keyDB, hist>>

(* counter.value: curr := atomic.LoadInt64(&c.curr). *)
ValueLoadCurr(p) ==
    /\ pc[p] = "cv_curr"
    /\ fr' = [fr EXCEPT ![p].curr = ctrs[fr[p].obj].curr,
                        ![p].expect = hist.sinceRead[fr[p].obj]]
    /\ hist' = [hist EXCEPT !.sinceRead[fr[p].obj] = 0]
    /\ pc' = [pc EXCEPT ![p] = "cv_prev"]
    /\ UNCHANGED <<scopes, registry, registryMu, ctrs, ggs, hasReporter, fdb, reporter, keyDB>>

(* A variant of the load of prev that compares but keeps no baseline to return. *)
ValueLoadPrev_ZeroBase(p) ==
    /\ pc[p] = "cv_prev"
    /\ LET prev == ctrs[fr[p].obj].prev
       IN  IF prev = fr[p].curr
           THEN /\ fr' = [fr EXCEPT ![p].prev = prev, ![p].delta = 0]
                /\ pc' = [pc EXCEPT ![p] = "cr_call"]
           ELSE /\ fr' = [fr EXCEPT ![p].prev = 0]
                /\ pc' = [pc EXCEPT ![p] = "cv_store"]
    /\ UNCHANGED <<scopes, registry, registryMu, ctrs, ggs, hasReporter, fdb, reporter, keyDB,
                   hist>>

(* counter.value: prev := atomic.LoadInt64(&c.prev); if prev == curr { return 0 }. *)
ValueLoadPrev(p) ==
    /\ pc[p] = "cv_prev"
    /\ LET prev == ctrs[fr[p].obj].prev
       IN  IF prev = fr[p].curr
           THEN /\ fr' = [fr EXCEPT ![p].prev = prev, ![p].delta = 0]
                /\ pc' = [pc EXCEPT ![p] = "cr_call"]
           ELSE /\ fr' = [fr EXCEPT ![p].prev = prev]
                /\ pc' = [pc EXCEPT ![p] = "cv_store"]
    /\ UNCHANGED <<scopes, registry, registryMu, ctrs, ggs, hasReporter, fdb, reporter, keyDB,
                   hist>>

(* A variant of the store: the baseline is taken from a second load of curr. *)
ValueStore_Reload(p) ==
    /\ pc[p] = "cv_store"
    /\ ctrs' = [ctrs EXCEPT ![fr[p].obj].prev = ctrs[fr[p].obj].curr]
    /\ fr' = [fr EXCEPT ![p].delta = fr[p].curr - fr[p].prev]
    /\ pc' = [pc EXCEPT ![p] = "cr_call"]
    /\ UNCHANGED <<scopes, registry, registryMu, ggs, hasReporter, fdb, reporter, keyDB, hist>>

(* A variant of the store that returns the delta and keeps the old baseline. *)
ValueStore_KeepBase(p) ==
    /\ pc[p] = "cv_store"
    /\ fr' = [fr EXCEPT ![p].delta = fr[p].curr - fr[p].prev]
    /\ pc' = [pc EXCEPT ![p] = "cr_call"]
    /\ UNCHANGED <<scopes, registry, registryMu, ctrs, ggs, hasReporter, fdb, reporter, keyDB,
                   hist>>

(* A variant of counter.report without the test of a zero delta. *)
CounterReport_NoZeroTest(p) ==
    /\ pc[p] = "cr_call"
    /\ LET ss == scopes[fr[p].ss]
           delta == fr[p].delta
       IN  /\ fr' = [fr EXCEPT ![p].log = Append(@,
                        ReportCounterCall(fullyQualifiedName(ss, fr[p].name),
                                          ss.tags, delta, fr[p].obj))]
           /\ reporter' = ReportCounter(reporter, fullyQualifiedName(ss, fr[p].name),
                                        ss.tags, delta, fr[p].obj)
           /\ hist' = [hist EXCEPT !.emitted[fr[p].obj] = @ + delta,
                                   !.lastEmit[fr[p].obj] = delta]
    /\ pc' = [pc EXCEPT ![p] = "rep_c"]
    /\ UNCHANGED <<scopes, registry, registryMu, ctrs, ggs, hasReporter, fdb, keyDB>>

(* counter.value: atomic.StoreInt64(&c.prev, curr); return curr - prev. *)
ValueStore(p) ==
    /\ pc[p] = "cv_store"
    /\ ctrs' = [ctrs EXCEPT ![fr[p].obj].prev = fr[p].curr]
    /\ fr' = [fr EXCEPT ![p].delta = fr[p].curr - fr[p].prev]
    /\ pc' = [pc EXCEPT ![p] = "cr_call"]
    /\ UNCHANGED <<scopes, registry, registryMu, ggs, hasReporter, fdb, reporter, keyDB, hist>>

(* counter.report: if delta == 0 { return }; r.ReportCounter(name, tags, delta). *)
CounterReport(p) ==
    /\ pc[p] = "cr_call"
    /\ LET ss == scopes[fr[p].ss]
           delta == fr[p].delta
       IN  IF delta = 0
           THEN UNCHANGED <<fr, hist, reporter>>
           ELSE /\ fr' = [fr EXCEPT ![p].log = Append(@,
                            ReportCounterCall(fullyQualifiedName(ss, fr[p].name),
                                              ss.tags, delta, fr[p].obj))]
                /\ reporter' = ReportCounter(reporter,
                                             fullyQualifiedName(ss, fr[p].name),
                                             ss.tags, delta, fr[p].obj)
                /\ hist' = [hist EXCEPT !.emitted[fr[p].obj] = @ + delta,
                                        !.lastEmit[fr[p].obj] = delta]
    /\ pc' = [pc EXCEPT ![p] = "rep_c"]
    /\ UNCHANGED <<scopes, registry, registryMu, ctrs, ggs, hasReporter, fdb, keyDB>>

(* scope.report: s.gm.Lock(). *)
GaugesLock(p) ==
    /\ pc[p] = "rep_gl"
    /\ LET ss == fr[p].ss
       IN  /\ scopes[ss].gm = NoProc
           /\ scopes' = [scopes EXCEPT ![ss].gm = p]
           /\ fr' = [fr EXCEPT ![p].names = DOMAIN scopes[ss].gauges]
    /\ pc' = [pc EXCEPT ![p] = "rep_g"]
    /\ UNCHANGED <<registry, registryMu, ctrs, ggs, hasReporter, fdb, reporter, keyDB, hist>>

(* The next gauge of the range; after the last one s.gm.Unlock(). *)
RangeGauges(p) ==
    /\ pc[p] = "rep_g"
    /\ LET ss == fr[p].ss
       IN  IF fr[p].names = {}
           THEN /\ scopes' = [scopes EXCEPT ![ss].gm = NoProc]
                /\ pc' = [pc EXCEPT ![p] = "rep_flush"]
                /\ UNCHANGED fr
           ELSE \E name \in fr[p].names :
                  /\ fr' = [fr EXCEPT ![p].name = name, ![p].names = @ \ {name},
                                      ![p].obj = scopes[ss].gauges[name]]
                  /\ pc' = [pc EXCEPT ![p] = "gr_swap"]
                  /\ UNCHANGED scopes
    /\ UNCHANGED <<registry, registryMu, ctrs, ggs, hasReporter, fdb, reporter, keyDB, hist>>

(* A variant of gauge.report that loads the flag and leaves it set. *)
GaugeSwap_LoadOnly(p) ==
    /\ pc[p] = "gr_swap"
    /\ hist' = [hist EXCEPT !.upd[fr[p].obj] = "none"]
    /\ pc' = [pc EXCEPT ![p] = IF ggs[fr[p].obj].updated = 1 THEN "gr_call" ELSE "rep_g"]
    /\ UNCHANGED <<scopes, registry, registryMu, ctrs, ggs, hasReporter, fdb, reporter, keyDB,
                   fr>>

(* gauge.report: if atomic.SwapUint64(&g.updated, 0) == 1. *)
GaugeSwap(p) ==
    /\ pc[p] = "gr_swap"
    /\ ggs' = [ggs EXCEPT ![fr[p].obj].updated = 0]
    /\ hist' = [hist EXCEPT !.upd[fr[p].obj] = "none"]
    /\ pc' = [pc EXCEPT ![p] = IF ggs[fr[p].obj].updated = 1 THEN "gr_call" ELSE "rep_g"]
    /\ UNCHANGED <<scopes, registry, registryMu, ctrs, hasReporter, fdb, reporter, keyDB, fr>>

(* gauge.report: r.ReportGauge(name, tags, g.value()). *)
GaugeReport(p) ==
    /\ pc[p] = "gr_call"
    /\ LET ss == scopes[fr[p].ss]
           value == Float64frombits(ggs[fr[p].obj].curr)
       IN  /\ fr' = [fr EXCEPT ![p].log = Append(@,
                        ReportGaugeCall(fullyQualifiedName(ss, fr[p].name),
                                        ss.tags, value, fr[p].obj))]
           /\ reporter' = ReportGauge(reporter, fullyQualifiedName(ss, fr[p].name),
                                      ss.tags, value, fr[p].obj)
           /\ hist' = [hist EXCEPT !.gaugeEmit[fr[p].obj] = value,
                                   !.gaugeCalls[fr[p].obj] = @ + 1]
    /\ pc' = [pc EXCEPT ![p] = "rep_g"]
    /\ UNCHANGED <<scopes, registry, registryMu, ctrs, ggs, hasReporter, fdb, keyDB>>

(* scope.report: r.Flush(). Flush: metrics := r.metrics;                  *)
(* r.metrics = r.metrics[:0]; json.Marshal(metrics).                       *)
ScopeFlush(p) ==
    /\ pc[p] = "rep_flush"
    /\ fr' = [fr EXCEPT ![p].log = Append(@, FlushCall),
                        ![p].batch = reporter.metrics]
    /\ reporter' = [reporter EXCEPT !.metrics = <<>>]
    /\ pc' = [pc EXCEPT ![p] = "rf_post"]
    /\ UNCHANGED <<scopes, registry, registryMu, ctrs, ggs, hasReporter, fdb, keyDB, hist>>

(* A variant of Flush that puts the batch back when the transport fails. *)
FlushPost_Requeue(p) ==
    /\ pc[p] = "rf_post"
    /\ \E err \in PostOutcomes :
          /\ fr' = [fr EXCEPT ![p].postErr = err]
          /\ reporter' = IF err = "nil" THEN reporter
                         ELSE [reporter EXCEPT !.metrics = fr[p].batch \o @]
    /\ pc' = [pc EXCEPT ![p] = "rf_ret"]
    /\ UNCHANGED <<scopes, registry, registryMu, ctrs, ggs, hasReporter, fdb, keyDB, hist>>

(* Flush: resp, err := r.client.Post(...): the transport succeeds or fails. *)
FlushPost(p) ==
    /\ pc[p] = "rf_post"
    /\ \E err \in PostOutcomes : fr' = [fr EXCEPT ![p].postErr = err]
    /\ pc' = [pc EXCEPT ![p] = "rf_ret"]
    /\ UNCHANGED <<scopes, registry, registryMu, ctrs, ggs, hasReporter, fdb, reporter, keyDB,
                   hist>>

(* Flush: the outcome is logged and Flush returns; nothing is kept of it. *)
FlushReturn(p) ==
    /\ pc[p] = "rf_ret"
    /\ fr' = [fr EXCEPT ![p].postErr = "none", ![p].batch = <<>>]
    /\ pc' = [pc EXCEPT ![p] = "rr_range"]
    /\ UNCHANGED <<scopes, registry, registryMu, ctrs, ggs, hasReporter, fdb, reporter, keyDB,
                   hist>>

(* reportRegistryWithLock: s.registry.Unlock(). *)
RegistryUnlock(p) ==
    /\ pc[p] = "rr_unlock"
    /\ registryMu' = NoProc
    /\ pc' = [pc EXCEPT ![p] = IF fr[p].op = "Close" THEN "cl_unlock" ELSE "rl_unlock"]
    /\ fr' = [q \in Procs |->
                IF q = p THEN fr[p] ELSE [fr[q] EXCEPT !.inflight = @ \ {p}]]
    /\ UNCHANGED <<scopes, registry, ctrs, ggs, hasReporter, fdb, reporter, keyDB, hist>>

(* reportLoopRun: the deferred s.status.Unlock(), and the return. *)
StatusUnlock(p) ==
    /\ pc[p] = "rl_unlock"
    /\ scopes' = [scopes EXCEPT ![fr[p].s].statusMu = NoProc]
    /\ pc' = [pc EXCEPT ![p] = IF p = Timer THEN "loop_select" ELSE "idle"]
    /\ fr' = [fr EXCEPT ![p] = Returned(p)]
    /\ UNCHANGED <<registry, registryMu, ctrs, ggs, hasReporter, fdb, reporter, keyDB, hist>>

-----------------------------------------------------------------------------
(* scope.reportLoop: the goroutine of the timer. *)

(* case <-ticker.C: a tick is received and reportLoopRun is called. *)
LoopTick ==
    /\ pc[Timer] = "loop_select"
    /\ pc' = [pc EXCEPT ![Timer] = "rl_lock"]
    /\ UNCHANGED <<scopes, registry, registryMu, ctrs, ggs, hasReporter, fdb, reporter, keyDB,
                   fr, hist>>

(* case <-s.status.quit: return. A receive from a closed channel is ready. *)
LoopQuit ==
    /\ pc[Timer] = "loop_select"
    /\ scopes[Root].quit = "closed"
    /\ pc' = [pc EXCEPT ![Timer] = "exited"]
    /\ UNCHANGED <<scopes, registry, registryMu, ctrs, ggs, hasReporter, fdb, reporter, keyDB,
                   fr, hist>>

-----------------------------------------------------------------------------
(* Derivation: scope.Tagged, scope.SubScope, scope.subscope,               *)
(* scope.newSubscope.                                                      *)

(* Calls that may still allocate a scope. *)
Deriving == {q \in Procs : pc[q] = "ns_lock"}

(* subscope: the key, then the lookup under the registry lock. caller is   *)
(* the exported call being served and its argument, kept for the history.  *)
subscope(p, s, prefix, tags, caller) ==
    LET immutableTags == mergeRightTags(scopes[s].tags, tags)
        key == KeyMap(prefix, immutableTags)
    IN  /\ pc[p] = "idle"
        /\ registryMu = NoProc
        /\ key \in DOMAIN registry \/ Len(scopes) + Cardinality(Deriving) < MaxScopes
        /\ IF key \in DOMAIN registry
           THEN /\ pc' = [pc EXCEPT ![p] = "sub_ret"]
                /\ fr' = [fr EXCEPT ![p] = [Fr0 EXCEPT !.op = "subscope", !.s = s,
                                              !.key = key, !.ret = registry[key],
                                              !.path = "found",
                                              !.call = caller.call,
                                              !.extra = caller.extra,
                                              !.name = caller.name]]
           ELSE /\ pc' = [pc EXCEPT ![p] = "ns_lock"]
                /\ fr' = [fr EXCEPT ![p] = [Fr0 EXCEPT !.op = "subscope", !.s = s,
                                              !.prefix = prefix, !.tags = immutableTags,
                                              !.key = key,
                                              !.call = caller.call,
                                              !.extra = caller.extra,
                                              !.name = caller.name]]
        /\ UNCHANGED <<scopes, registry, registryMu, ctrs, ggs, hasReporter, fdb, reporter,
                       keyDB, hist>>

Tagged(p, s, tags) ==
    subscope(p, s, scopes[s].prefix, copyMap(tags),
             [call |-> "Tagged", extra |-> tags, name |-> <<>>])

SubScope(p, s, prefix) ==
    subscope(p, s, fullyQualifiedName(scopes[s], prefix), NilMap,
             [call |-> "SubScope", extra |-> NilMap, name |-> prefix])

(* newSubscope: subscope := &scope{...}. The status of the new scope is the *)
(* zero value: closed false, quit a nil channel.                            *)
subscopeObject(s, prefix, immutableTags) ==
    [prefix |-> prefix, separator |-> s.separator, tags |-> immutableTags,
     closed |-> FALSE, quit |-> "nil", statusMu |-> NoProc,
     cm |-> NoProc, gm |-> NoProc, counters |-> <<>>, gauges |-> <<>>]

(* A variant of newSubscope without the second lookup. *)
newSubscope_NoSecondLookup(p) ==
    /\ pc[p] = "ns_lock"
    /\ registryMu = NoProc
    /\ LET s == scopes[fr[p].s]
           key == fr[p].key
       IN  /\ scopes' = Append(scopes, subscopeObject(s, fr[p].prefix, fr[p].tags))
           /\ registry' = [k \in DOMAIN registry \cup {key} |->
                             IF k = key THEN Len(scopes) + 1 ELSE registry[k]]
           /\ fr' = [fr EXCEPT ![p].ret = Len(scopes) + 1, ![p].path = "created"]
    /\ pc' = [pc EXCEPT ![p] = "sub_ret"]
    /\ UNCHANGED <<registryMu, ctrs, ggs, hasReporter, fdb, reporter, keyDB, hist>>

(* newSubscope: the second lookup and the allocation, under the registry lock. *)
newSubscope(p) ==
    /\ pc[p] = "ns_lock"
    /\ registryMu = NoProc
    /\ LET s == scopes[fr[p].s]
           key == fr[p].key
       IN  IF key \in DOMAIN registry
           THEN /\ fr' = [fr EXCEPT ![p].ret = registry[key], ![p].path = "lost"]
                /\ UNCHANGED <<scopes, registry>>
           ELSE /\ scopes' = Append(scopes, subscopeObject(s, fr[p].prefix, fr[p].tags))
                /\ registry' = registry @@ (key :> Len(scopes) + 1)
                /\ fr' = [fr EXCEPT ![p].ret = Len(scopes) + 1, ![p].path = "created"]
    /\ pc' = [pc EXCEPT ![p] = "sub_ret"]
    /\ UNCHANGED <<registryMu, ctrs, ggs, hasReporter, fdb, reporter, keyDB, hist>>

(* The derived scope is handed to the caller. *)
SubscopeReturn(p) ==
    /\ pc[p] = "sub_ret"
    /\ pc' = [pc EXCEPT ![p] = "idle"]
    /\ fr' = [fr EXCEPT ![p] = Fr0]
    /\ UNCHANGED <<scopes, registry, registryMu, ctrs, ggs, hasReporter, fdb, reporter, keyDB,
                   hist>>

-----------------------------------------------------------------------------
(* scope.Snapshot, counter.snapshot, gauge.snapshot. *)

(* An entry of the snapshot. obj is the metric object read and expect what *)
(* the history says of it at the read (both known to the history only).    *)
SnapshotEntry(name, tags, value, obj, expect) ==
    [name |-> name, tags |-> tags, value |-> value, obj |-> obj, expect |-> expect]

(* Snapshot: snap := newSnapshot(). *)
Snapshot(p, s) ==
    /\ p \in Threads
    /\ pc[p] = "idle"
    /\ pc' = [pc EXCEPT ![p] = "sn_lock"]
    /\ fr' = [fr EXCEPT ![p] = [Fr0 EXCEPT !.op = "Snapshot", !.s = s]]
    /\ UNCHANGED <<scopes, registry, registryMu, ctrs, ggs, hasReporter, fdb, reporter, keyDB,
                   hist>>

(* Snapshot: s.registry.Lock(); range over the subscopes. *)
SnapshotLock(p) ==
    /\ pc[p] = "sn_lock"
    /\ registryMu = NoProc
    /\ registryMu' = p
    /\ fr' = [fr EXCEPT ![p].todo = {registry[k] : k \in DOMAIN registry}]
    /\ pc' = [pc EXCEPT ![p] = "sn_range"]
    /\ UNCHANGED <<scopes, registry, ctrs, ggs, hasReporter, fdb, reporter, keyDB, hist>>

(* The next subscope of the range and ss.cm.Lock(); after the last one     *)
(* s.registry.Unlock().                                                    *)
SnapshotRange(p) ==
    /\ pc[p] = "sn_range"
    /\ IF fr[p].todo = {}
       THEN /\ registryMu' = NoProc
            /\ pc' = [pc EXCEPT ![p] = "sn_ret"]
            /\ UNCHANGED <<scopes, fr>>
       ELSE \E ss \in fr[p].todo :
              /\ scopes[ss].cm = NoProc
              /\ scopes' = [scopes EXCEPT ![ss].cm = p]
              /\ fr' = [fr EXCEPT ![p].ss = ss, ![p].todo = @ \ {ss},
                                  ![p].tags = copyMap(scopes[ss].tags),
                                  ![p].names = DOMAIN scopes[ss].counters]
              /\ pc' = [pc EXCEPT ![p] = "sn_c"]
              /\ UNCHANGED registryMu
    /\ UNCHANGED <<registry, ctrs, ggs, hasReporter, fdb, reporter, keyDB, hist>>

(* The next counter of the range; after the last one ss.cm.Unlock(). *)
SnapshotCounters(p) ==
    /\ pc[p] = "sn_c"
    /\ LET ss == fr[p].ss
       IN  IF fr[p].names = {}
           THEN /\ scopes' = [scopes EXCEPT ![ss].cm = NoProc]
                /\ pc' = [pc EXCEPT ![p] = "sn_gl"]
                /\ UNCHANGED fr
           ELSE \E key \in fr[p].names :
                  /\ fr' = [fr EXCEPT ![p].name = key, ![p].names = @ \ {key},
                                      ![p].obj = scopes[ss].counters[key]]
                  /\ pc' = [pc EXCEPT ![p] = "sn_curr"]
                  /\ UNCHANGED scopes
    /\ UNCHANGED <<registry, registryMu, ctrs, ggs, hasReporter, fdb, reporter, keyDB, hist>>

(* counter.snapshot: atomic.LoadInt64(&c.curr). *)
SnapshotLoadCurr(p) ==
    /\ pc[p] = "sn_curr"
    /\ fr' = [fr EXCEPT ![p].curr = ctrs[fr[p].obj].curr,
                        ![p].expect = hist.sinceRead[fr[p].obj]]
    /\ pc' = [pc EXCEPT ![p] = "sn_prev"]
    /\ UNCHANGED <<scopes, registry, registryMu, ctrs, ggs, hasReporter, fdb, reporter, keyDB,
                   hist>>

(* A variant of counter.snapshot that consumes the delta as counter.value does. *)
SnapshotLoadPrev_Consume(p) ==
    /\ pc[p] = "sn_prev"
    /\ LET ss == scopes[fr[p].ss]
           name == fullyQualifiedName(ss, fr[p].name)
           id == KeyMap(name, fr[p].tags)
           value == fr[p].curr - ctrs[fr[p].obj].prev
           entry == SnapshotEntry(name, fr[p].tags, value, fr[p].obj, fr[p].expect)
       IN  fr' = [fr EXCEPT ![p].snap.counters =
                     [k \in DOMAIN @ \cup {id} |-> IF k = id THEN entry ELSE @[k]]]
    /\ ctrs' = [ctrs EXCEPT ![fr[p].obj].prev = fr[p].curr]
    /\ pc' = [pc EXCEPT ![p] = "sn_c"]
    /\ UNCHANGED <<scopes, registry, registryMu, ggs, hasReporter, fdb, reporter, keyDB, hist>>

(* counter.snapshot: - atomic.LoadInt64(&c.prev); snap.counters[id] = ... *)
SnapshotLoadPrev(p) ==
    /\ pc[p] = "sn_prev"
    /\ LET ss == scopes[fr[p].ss]
           name == fullyQualifiedName(ss, fr[p].name)
           id == KeyMap(name, fr[p].tags)
           value == fr[p].curr - ctrs[fr[p].obj].prev
           entry == SnapshotEntry(name, fr[p].tags, value, fr[p].obj, fr[p].expect)
       IN  fr' = [fr EXCEPT ![p].snap.counters =
                     [k \in DOMAIN @ \cup {id} |-> IF k = id THEN entry ELSE @[k]]]
    /\ pc' = [pc EXCEPT ![p] = "sn_c"]
    /\ UNCHANGED <<scopes, registry, registryMu, ctrs, ggs, hasReporter, fdb, reporter, keyDB,
                   hist>>

(* Snapshot: ss.gm.Lock(). *)
SnapshotGaugesLock(p) ==
    /\ pc[p] = "sn_gl"
    /\ LET ss == fr[p].ss
       IN  /\ scopes[ss].gm = NoProc
           /\ scopes' = [scopes EXCEPT ![ss].gm = p]
           /\ fr' = [fr EXCEPT ![p].names = DOMAIN scopes[ss].gauges]
    /\ pc' = [pc EXCEPT ![p] = "sn_g"]
    /\ UNCHANGED <<registry, registryMu, ctrs, ggs, hasReporter, fdb, reporter, keyDB, hist>>

(* The next gauge of the range, gauge.snapshot and snap.gauges[id] = ...;  *)
(* after the last one ss.gm.Unlock().                                      *)
SnapshotGauges(p) ==
    /\ pc[p] = "sn_g"
    /\ LET ss == fr[p].ss
       IN  IF fr[p].names = {}
           THEN /\ scopes' = [scopes EXCEPT ![ss].gm = NoProc]
                /\ pc' = [pc EXCEPT ![p] = "sn_range"]
                /\ UNCHANGED fr
           ELSE \E key \in fr[p].names :
                  LET g == scopes[ss].gauges[key]
                      name == fullyQualifiedName(scopes[ss], key)
                      id == KeyMap(name, fr[p].tags)
                      value == Float64frombits(ggs[g].curr)
                      expect == IF \E q \in Procs : Updating(q, g) THEN "any"
                                ELSE hist.last[g]
                      entry == SnapshotEntry(name, fr[p].tags, value, g, expect)
                  IN  /\ fr' = [fr EXCEPT ![p].names = @ \ {key},
                                          ![p].snap.gauges =
                                             [k \in DOMAIN @ \cup {id} |->
                                                IF k = id THEN entry ELSE @[k]]]
                      /\ UNCHANGED <<pc, scopes>>
    /\ UNCHANGED <<registry, registryMu, ctrs, ggs, hasReporter, fdb, reporter, keyDB, hist>>

(* The snapshot is handed to the caller. *)
SnapshotReturn(p) ==
    /\ pc[p] = "sn_ret"
    /\ pc' = [pc EXCEPT ![p] = "idle"]
    /\ fr' = [fr EXCEPT ![p] = Fr0]
    /\ UNCHANGED <<scopes, registry, registryMu, ctrs, ggs, hasReporter, fdb, reporter, keyDB,
                   hist>>

-----------------------------------------------------------------------------
(* scope.Close, on the io.Closer NewRootScope returns (the root scope). *)

(* Root passes under way: reportLoopRun found the scope open and has not  *)
(* yet released the registry.                                             *)
RootPassInFlight(q) ==
    /\ fr[q].op \in {"Report", "Loop"}
    /\ fr[q].s = Root
    /\ pc[q] \in {"rr_lock"} \cup TraverseLocs

Close(p) ==
    /\ p \in Threads
    /\ pc[p] = "idle"
    /\ pc' = [pc EXCEPT ![p] = "cl_lock"]
    /\ LET inflight == {q \in Procs : RootPassInFlight(q)}
       IN  fr' = [fr EXCEPT ![p] = [Fr0 EXCEPT !.op = "Close", !.s = Root,
                                      !.inflight = inflight,
                                      !.waited = inflight # {}]]
    /\ UNCHANGED <<scopes, registry, registryMu, ctrs, ggs, hasReporter, fdb, reporter, keyDB,
                   hist>>

(* A variant of Close without the test of closed. *)
CloseLock_NoClosedTest(p) ==
    /\ pc[p] = "cl_lock"
    /\ LET s == fr[p].s
       IN  /\ scopes[s].statusMu = NoProc
           /\ scopes' = [scopes EXCEPT ![s].statusMu = p, ![s].closed = TRUE,
                                       ![s].quit = "closed"]
           /\ hist' = [hist EXCEPT
                         !.quitCloses = @ + 1,
                         !.panicked = @ \/ scopes[s].quit # "open"]
           /\ fr' = [fr EXCEPT ![p].first = TRUE]
           /\ pc' = [pc EXCEPT ![p] = "rr_lock"]
    /\ UNCHANGED <<registry, registryMu, ctrs, ggs, hasReporter, fdb, reporter, keyDB>>

(* A variant of Close that does not take the status lock. *)
CloseLock_NoStatusLock(p) ==
    /\ pc[p] = "cl_lock"
    /\ LET s == fr[p].s
       IN  IF scopes[s].closed
           THEN /\ pc' = [pc EXCEPT ![p] = "cl_ret"]
                /\ fr' = [fr EXCEPT ![p].err = "nil"]
                /\ UNCHANGED <<scopes, hist>>
           ELSE /\ scopes' = [scopes EXCEPT ![s].closed = TRUE, ![s].quit = "closed"]
                /\ hist' = [hist EXCEPT
                              !.quitCloses = @ + 1,
                              !.panicked = @ \/ scopes[s].quit # "open"]
                /\ fr' = [fr EXCEPT ![p].first = TRUE]
                /\ pc' = [pc EXCEPT ![p] = "rr_lock"]
    /\ UNCHANGED <<registry, registryMu, ctrs, ggs, hasReporter, fdb, reporter, keyDB>>

(* s.status.Lock(); if closed { unlock; return nil }; closed = true; close(quit). *)
CloseLock(p) ==
    /\ pc[p] = "cl_lock"
    /\ LET s == fr[p].s
       IN  /\ scopes[s].statusMu = NoProc
           /\ IF scopes[s].closed
              THEN /\ pc' = [pc EXCEPT ![p] = "cl_ret"]
                   /\ fr' = [fr EXCEPT ![p].err = "nil"]
                   /\ UNCHANGED <<scopes, hist>>
              ELSE /\ scopes' = [scopes EXCEPT ![s].statusMu = p, ![s].closed = TRUE,
                                               ![s].quit = "closed"]
                   /\ hist' = [hist EXCEPT
                                 !.quitCloses = @ + 1,
                                 !.panicked = @ \/ scopes[s].quit # "open"]
                   /\ fr' = [fr EXCEPT ![p].first = TRUE]
                   /\ pc' = [pc EXCEPT ![p] = "rr_lock"]
    /\ UNCHANGED <<registry, registryMu, ctrs, ggs, hasReporter, fdb, reporter, keyDB>>

(* A variant of Close that returns without s.status.Unlock(). *)
CloseUnlock_KeepsStatus(p) ==
    /\ pc[p] = "cl_unlock"
    /\ pc' = [pc EXCEPT ![p] = "cl_ret"]
    /\ fr' = [fr EXCEPT ![p].err = IF reporterIsCloser THEN "closer.Close()" ELSE "nil"]
    /\ UNCHANGED <<scopes, registry, registryMu, ctrs, ggs, hasReporter, fdb, reporter, keyDB,
                   hist>>

(* s.status.Unlock(); the reporter is no io.Closer: return nil. *)
CloseUnlock(p) ==
    /\ pc[p] = "cl_unlock"
    /\ scopes' = [scopes EXCEPT ![fr[p].s].statusMu = NoProc]
    /\ pc' = [pc EXCEPT ![p] = "cl_ret"]
    /\ fr' = [fr EXCEPT ![p].err = IF reporterIsCloser THEN "closer.Close()" ELSE "nil"]
    /\ UNCHANGED <<registry, registryMu, ctrs, ggs, hasReporter, fdb, reporter, keyDB, hist>>

CloseReturn(p) ==
    /\ pc[p] = "cl_ret"
    /\ pc' = [pc EXCEPT ![p] = "idle"]
    /\ hist' = [hist EXCEPT !.closeReturned = @ \/ fr[p].first]
    /\ fr' = [fr EXCEPT ![p] = Fr0]
    /\ UNCHANGED <<scopes, registry, registryMu, ctrs, ggs, hasReporter, fdb, reporter, keyDB>>

-----------------------------------------------------------------------------
(* The system. *)

ScopeIds == 1 .. Len(scopes)

Next ==
    \/ \E c \in 1 .. Len(ctrs), v \in IncValues : Inc(c, v)
    \/ \E p \in Threads, g \in 1 .. Len(ggs), x \in UpdateValues : UpdateStore(p, g, x)
    \/ \E p \in Threads : UpdateFlag(p)
    \/ \E p \in Threads, s \in ScopeIds, name \in CounterNames : CounterLookup(p, s, name)
    \/ \E p \in Threads : CounterCreate(p)
    \/ \E p \in Threads, s \in ScopeIds, name \in GaugeNames : GaugeLookup(p, s, name)
    \/ \E p \in Threads : GaugeCreate(p)
    \/ \E p \in Threads : MetricReturn(p)
    \/ \E p \in Threads, s \in ScopeIds, tags \in TagInputs : Tagged(p, s, tags)
    \/ \E p \in Threads, s \in ScopeIds, prefix \in SubNames : SubScope(p, s, prefix)
    \/ \E p \in Threads : newSubscope(p)
    \/ \E p \in Threads : SubscopeReturn(p)
    \/ \E p \in Threads, s \in ScopeIds : Snapshot(p, s)
    \/ \E p \in Threads : SnapshotLock(p)
    \/ \E p \in Threads : SnapshotRange(p)
    \/ \E p \in Threads : SnapshotCounters(p)
    \/ \E p \in Threads : SnapshotLoadCurr(p)
    \/ \E p \in Threads : SnapshotLoadPrev(p)
    \/ \E p \in Threads : SnapshotGaugesLock(p)
    \/ \E p \in Threads : SnapshotGauges(p)
    \/ \E p \in Threads : SnapshotReturn(p)
    \/ \E p \in Threads, s \in ScopeIds : Report(p, s)
    \/ \E p \in Procs : reportLoopRun(p)
    \/ \E p \in Procs : reportRegistryWithLock(p)
    \/ \E p \in Procs : RangeSubscopes(p)
    \/ \E p \in Procs : RangeCounters(p)
    \/ \E p \in Procs : ValueLoadCurr(p)
    \/ \E p \in Procs : ValueLoadPrev(p)
    \/ \E p \in Procs : ValueStore(p)
    \/ \E p \in Procs : CounterReport(p)
    \/ \E p \in Procs : GaugesLock(p)
    \/ \E p \in Procs : RangeGauges(p)
    \/ \E p \in Procs : GaugeSwap(p)
    \/ \E p \in Procs : GaugeReport(p)
    \/ \E p \in Procs : ScopeFlush(p)
    \/ \E p \in Procs : FlushPost(p)
    \/ \E p \in Procs : FlushReturn(p)
    \/ \E p \in Procs : RegistryUnlock(p)
    \/ \E p \in Procs : StatusUnlock(p)
    \/ LoopTick
    \/ LoopQuit
    \/ \E p \in Threads : Close(p)
    \/ \E p \in Threads : CloseLock(p)
    \/ \E p \in Threads : CloseUnlock(p)
    \/ \E p \in Threads : CloseReturn(p)

Spec == Init /\ [][Next]_vars

-----------------------------------------------------------------------------
(* Reporting and shutdown on a tree that is already built: the root alone, *)
(* or the root and root.SubScope("x"), with the counter "c" created in the *)
(* youngest scope.                                                         *)

TreeSizes == {1, 2}

TreeOf(n) ==
    LET root == newRootScope(<<>>, NilMap, emptyString)
        sub == subscopeObject(root, fullyQualifiedName(root, <<"x">>),
                              mergeRightTags(root.tags, NilMap))
        all == <<root, sub>>
    IN  [i \in 1 .. n |-> all[i]]

(* The youngest scope of the tree holds the one metric. *)
WithCounter(t) ==
    [i \in DOMAIN t |-> IF i = Len(t) THEN [t[i] EXCEPT !.counters = (<<"c">> :> 1)]
                        ELSE t[i]]
WithGauge(t) ==
    [i \in DOMAIN t |-> IF i = Len(t) THEN [t[i] EXCEPT !.gauges = (<<"g">> :> 1)]
                        ELSE t[i]]

RegistryOf(t) == [k \in {KeyMap(t[i].prefix, t[i].tags) : i \in DOMAIN t} |->
                    CHOOSE i \in DOMAIN t : KeyMap(t[i].prefix, t[i].tags) = k]

(* A variant of the test of the interval that takes zero for a period. *)
Started_ZeroIsPeriod(reportInterval) == reportInterval >= 0

(* newRootScope: if reportInterval > 0 { go s.reportLoop(reportInterval) }. *)
Started(reportInterval) == reportInterval > 0

InitProcs(running) ==
    /\ registryMu = NoProc
    /\ pc = [p \in Procs |->
               IF p = Timer THEN (IF running THEN "loop_select" ELSE "none")
               ELSE "idle"]
    /\ fr = [p \in Procs |-> Returned(p)]

InitReport ==
    /\ \E n \in TreeSizes :
          /\ scopes = WithCounter(TreeOf(n))
          /\ registry = RegistryOf(TreeOf(n))
          /\ ctrs = <<newCounter>>
          /\ hist = [Hist0 EXCEPT !.incTotal = <<0>>, !.emitted = <<0>>,
                                  !.sinceRead = <<0>>, !.lastEmit = <<0>>]
    /\ ggs = <<>>
    /\ hasReporter \in BOOLEAN
    /\ reporter = NewReporter
    /\ fdb = NewFDB
    /\ keyDB = newKeyDB(PoolSize)
    /\ \E running \in BOOLEAN : InitProcs(running)

(* One goroutine calls Report and Close; the producers call Inc. *)
Callers == {1}

NextReport ==
    \/ \E c \in 1 .. Len(ctrs), v \in IncValues : Inc(c, v)
    \/ \E p \in Callers, s \in ScopeIds : Report(p, s)
    \/ \E p \in Procs : reportLoopRun(p)
    \/ \E p \in Procs : reportRegistryWithLock(p)
    \/ \E p \in Procs : RangeSubscopes(p)
    \/ \E p \in Procs : RangeCounters(p)
    \/ \E p \in Procs : ValueLoadCurr(p)
    \/ \E p \in Procs : ValueLoadPrev(p)
    \/ \E p \in Procs : ValueStore(p)
    \/ \E p \in Procs : CounterReport(p)
    \/ \E p \in Procs : GaugesLock(p)
    \/ \E p \in Procs : RangeGauges(p)
    \/ \E p \in Procs : ScopeFlush(p)
    \/ \E p \in Procs : FlushPost(p)
    \/ \E p \in Procs : FlushReturn(p)
    \/ \E p \in Procs : RegistryUnlock(p)
    \/ \E p \in Procs : StatusUnlock(p)
    \/ LoopTick
    \/ LoopQuit
    \/ \E p \in Callers : Close(p)
    \/ \E p \in Callers : CloseLock(p)
    \/ \E p \in Callers : CloseUnlock(p)
    \/ \E p \in Callers : CloseReturn(p)

SpecReport == InitReport /\ [][NextReport]_vars

-----------------------------------------------------------------------------
(* Shutdown: every goroutine of Threads calls Report and Close on the same *)
(* trees, which hold no metric.                                            *)

InitShutdown ==
    /\ \E n \in TreeSizes :
          /\ scopes = TreeOf(n)
          /\ registry = RegistryOf(TreeOf(n))
    /\ ctrs = <<>>
    /\ hist = Hist0
    /\ ggs = <<>>
    /\ hasReporter \in BOOLEAN
    /\ reporter = NewReporter
    /\ fdb = NewFDB
    /\ keyDB = newKeyDB(PoolSize)
    /\ \E running \in BOOLEAN : InitProcs(running)

NextShutdown ==
    \/ \E p \in Threads, s \in ScopeIds : Report(p, s)
    \/ \E p \in Procs : reportLoopRun(p)
    \/ \E p \in Procs : reportRegistryWithLock(p)
    \/ \E p \in Procs : RangeSubscopes(p)
    \/ \E p \in Procs : RangeCounters(p)
    \/ \E p \in Procs : GaugesLock(p)
    \/ \E p \in Procs : RangeGauges(p)
    \/ \E p \in Procs : ScopeFlush(p)
    \/ \E p \in Procs : FlushPost(p)
    \/ \E p \in Procs : FlushReturn(p)
    \/ \E p \in Procs : RegistryUnlock(p)
    \/ \E p \in Procs : StatusUnlock(p)
    \/ LoopTick
    \/ LoopQuit
    \/ \E p \in Threads : Close(p)
    \/ \E p \in Threads : CloseLock(p)
    \/ \E p \in Threads : CloseUnlock(p)
    \/ \E p \in Threads : CloseReturn(p)

SpecShutdown == InitShutdown /\ [][NextShutdown]_vars

(* Scheduling. The Go scheduler runs every runnable goroutine, a         *)
(* sync.Mutex hands the lock to a waiter that has waited long enough        *)
(* (starvation mode), and select picks among its ready cases at random, so *)
(* a case that is ready again and again is taken. The reporter's methods   *)
(* return. Nothing obliges a goroutine to make a new call, or time to      *)
(* deliver a tick.                                                         *)
Continue(p) ==
    \/ reportLoopRun(p)
    \/ reportRegistryWithLock(p)
    \/ RangeSubscopes(p)
    \/ RangeCounters(p)
    \/ GaugesLock(p)
    \/ RangeGauges(p)
    \/ ScopeFlush(p)
    \/ FlushPost(p)
    \/ FlushReturn(p)
    \/ RegistryUnlock(p)
    \/ StatusUnlock(p)
    \/ CloseLock(p)
    \/ CloseUnlock(p)
    \/ CloseReturn(p)

Scheduling == (\A p \in Procs : SF_vars(Continue(p))) /\ SF_vars(LoopQuit)

SpecShutdownFair == SpecShutdown /\ Scheduling

-----------------------------------------------------------------------------
(* Derivation: the goroutines of Threads call Tagged and SubScope on the   *)
(* scopes of a tree that starts as the root alone.                         *)

NextScopes ==
    \/ \E p \in Threads, s \in ScopeIds, tags \in TagInputs : Tagged(p, s, tags)
    \/ \E p \in Threads, s \in ScopeIds, prefix \in SubNames : SubScope(p, s, prefix)
    \/ \E p \in Threads : newSubscope(p)
    \/ \E p \in Threads : SubscopeReturn(p)

SpecScopes == Init /\ [][NextScopes]_vars

(* Derivation by one goroutine, with tag maps that override and extend the *)
(* receiver's tags.                                                        *)
NextTags ==
    \/ \E p \in Callers, s \in ScopeIds, tags \in ExtraInputs : Tagged(p, s, tags)
    \/ \E p \in Callers, s \in ScopeIds, prefix \in SubNames : SubScope(p, s, prefix)
    \/ \E p \in Callers : newSubscope(p)
    \/ \E p \in Callers : SubscopeReturn(p)

SpecTags == Init /\ [][NextTags]_vars

-----------------------------------------------------------------------------
(* KeyMap as a function: two goroutines call it with prefixes and tag maps *)
(* whose keys and values hold none of '=', ',' and '+', the range over the *)
(* map yielding the keys in any order.                                     *)

KeyPrefixes == {<<>>, <<"x">>, <<"a", "=", "1">>, <<"x", "+", "a", "=", "1">>}
KeyTagKeys == {<<"a">>, <<"b">>, <<"a", "b">>}
KeyTagValues == {<<"1">>, <<"2">>}
KeyTagMaps ==
    {NilMap} \cup
    UNION {{MakeMap(kv) : kv \in [K -> KeyTagValues]} : K \in SUBSET KeyTagKeys}
KeyCallers == {1, 2}

InitKeyMap ==
    /\ scopes = TreeOf(1)
    /\ registry = RegistryOf(TreeOf(1))
    /\ ctrs = <<>>
    /\ ggs = <<>>
    /\ hist = Hist0
    /\ hasReporter = FALSE
    /\ reporter = NewReporter
    /\ fdb = NewFDB
    /\ keyDB = newKeyDB(PoolSize)
    /\ InitProcs(FALSE)

KeyMapCall(p, prefix, stringMap, order) ==
    /\ pc[p] = "idle"
    /\ pc' = [pc EXCEPT ![p] = "km_ret"]
    /\ fr' = [fr EXCEPT ![p] = [Fr0 EXCEPT !.op = "KeyMap", !.prefix = prefix,
                                          !.tags = stringMap, !.order = order,
                                          !.key = KeyMapIn(prefix, stringMap, order)]]
    /\ UNCHANGED <<scopes, registry, registryMu, ctrs, ggs, hasReporter, fdb, reporter, keyDB,
                   hist>>

KeyMapReturn(p) ==
    /\ pc[p] = "km_ret"
    /\ pc' = [pc EXCEPT ![p] = "idle"]
    /\ fr' = [fr EXCEPT ![p] = Fr0]
    /\ UNCHANGED <<scopes, registry, registryMu, ctrs, ggs, hasReporter, fdb, reporter, keyDB,
                   hist>>

(* KeyMap with its pools (keymap.go: DB.get, DB.put, itemDB.release). The  *)
(* other operations use KeyMap as a function of its arguments.             *)

(* db.alloc(): an object at an address not in use. *)
FreshAddress(heap) == CHOOSE i \in 1 .. Cardinality(DOMAIN heap) + 1 : i \notin DOMAIN heap

(* An object no pool and no caller holds any more is gone. *)
Dropped(heap, a) == [i \in DOMAIN heap \ {a} |-> heap[i]]
Stored(heap, a, data) == [i \in DOMAIN heap \cup {a} |-> IF i = a THEN data ELSE heap[i]]

(* keys := keyDB.stringsDB.get(), a []string: a receive from the channel,  *)
(* or alloc when it is empty.                                              *)
KeyMapGetKeys(p, prefix, stringMap, order) ==
    /\ pc[p] = "idle"
    /\ LET pooled == Len(keyDB.stringsDB) > 0
           keys == IF pooled THEN Head(keyDB.stringsDB)
                   ELSE [array |-> FreshAddress(keyDB.arrays), len |-> 0]
       IN  /\ keyDB' = IF pooled THEN [keyDB EXCEPT !.stringsDB = Tail(@)]
                        ELSE [keyDB EXCEPT !.arrays = Stored(@, keys.array, <<>>)]
           /\ fr' = [fr EXCEPT ![p] = [Fr0 EXCEPT !.op = "KeyMap", !.prefix = prefix,
                                                 !.tags = stringMap, !.order = order,
                                                 !.keys = keys,
                                                 !.fresh = IF pooled THEN {}
                                                           ELSE {"keys"}]]
    /\ pc' = [pc EXCEPT ![p] = "kp_sort"]
    /\ UNCHANGED <<scopes, registry, registryMu, ctrs, ggs, hasReporter, fdb, reporter, hist>>

(* for k := range stringMap { keys = append(keys, k) }; sort.Strings(keys). *)
KeyMapSort(p) ==
    /\ pc[p] = "kp_sort"
    /\ LET keys == fr[p].keys
           had == SubSeq(keyDB.arrays[keys.array], 1, keys.len)
           sorted == SortKeys(had \o fr[p].order)
       IN  /\ keyDB' = [keyDB EXCEPT !.arrays[keys.array] = sorted]
           /\ fr' = [fr EXCEPT ![p].keys.len = Len(sorted)]
    /\ pc' = [pc EXCEPT ![p] = "kp_buf"]
    /\ UNCHANGED <<scopes, registry, registryMu, ctrs, ggs, hasReporter, fdb, reporter, hist>>

(* buf := keyDB.bufferDB.get(), a bytes.Buffer. *)
KeyMapGetBuf(p) ==
    /\ pc[p] = "kp_buf"
    /\ LET pooled == Len(keyDB.bufferDB) > 0
           buf == IF pooled THEN Head(keyDB.bufferDB) ELSE FreshAddress(keyDB.bufs)
       IN  /\ keyDB' = IF pooled THEN [keyDB EXCEPT !.bufferDB = Tail(@)]
                        ELSE [keyDB EXCEPT !.bufs = Stored(@, buf, <<>>)]
           /\ fr' = [fr EXCEPT ![p].buf = buf,
                               ![p].fresh = IF pooled THEN @ ELSE @ \cup {"buf"}]
    /\ pc' = [pc EXCEPT ![p] = "kp_write"]
    /\ UNCHANGED <<scopes, registry, registryMu, ctrs, ggs, hasReporter, fdb, reporter, hist>>

(* The writes to buf, and key := buf.String(). *)
KeyMapWrite(p) ==
    /\ pc[p] = "kp_write"
    /\ LET keys == keyDB.arrays[fr[p].keys.array]
           head == IF fr[p].prefix # emptyString THEN fr[p].prefix \o prefixSplitter
                   ELSE <<>>
           bytes == keyDB.bufs[fr[p].buf] \o head
                       \o WritePairs(keys, fr[p].tags, 1, MapLen(fr[p].tags))
       IN  /\ keyDB' = [keyDB EXCEPT !.bufs[fr[p].buf] = bytes]
           /\ fr' = [fr EXCEPT ![p].key = bytes]
    /\ pc' = [pc EXCEPT ![p] = "kp_release"]
    /\ UNCHANGED <<scopes, registry, registryMu, ctrs, ggs, hasReporter, fdb, reporter, hist>>

(* A variant of release that puts the buffer back as it is. *)
KeyMapReleaseBuf_NoReset(p) ==
    /\ pc[p] = "kp_release"
    /\ LET buf == fr[p].buf
       IN  keyDB' = IF Len(keyDB.bufferDB) < PoolSize
                    THEN [keyDB EXCEPT !.bufferDB = Append(@, buf)]
                    ELSE [keyDB EXCEPT !.bufs = Dropped(@, buf)]
    /\ fr' = [fr EXCEPT ![p].buf = 0]
    /\ pc' = [pc EXCEPT ![p] = "kp_relkeys"]
    /\ UNCHANGED <<scopes, registry, registryMu, ctrs, ggs, hasReporter, fdb, reporter, hist>>

(* release: b.Reset(); s.bufferDB.put(b): a send, or nothing when the      *)
(* channel is full.                                                        *)
KeyMapReleaseBuf(p) ==
    /\ pc[p] = "kp_release"
    /\ LET buf == fr[p].buf
       IN  keyDB' = IF Len(keyDB.bufferDB) < PoolSize
                    THEN [keyDB EXCEPT !.bufferDB = Append(@, buf), !.bufs[buf] = <<>>]
                    ELSE [keyDB EXCEPT !.bufs = Dropped(@, buf)]
    /\ fr' = [fr EXCEPT ![p].buf = 0]
    /\ pc' = [pc EXCEPT ![p] = "kp_relkeys"]
    /\ UNCHANGED <<scopes, registry, registryMu, ctrs, ggs, hasReporter, fdb, reporter, hist>>

(* release: strs[i] = emptyString for every i; s.stringsDB.put(strs[:0]). *)
(* An array is the elements written to it: one whose elements are all the  *)
(* zero value again is the array alloc makes.                              *)
KeyMapReleaseKeys(p) ==
    /\ pc[p] = "kp_relkeys"
    /\ LET keys == fr[p].keys
           array == keyDB.arrays[keys.array]
           cleared == IF keys.len >= Len(array) THEN <<>>
                      ELSE [i \in 1 .. Len(array) |->
                              IF i <= keys.len THEN emptyString ELSE array[i]]
       IN  keyDB' = IF Len(keyDB.stringsDB) < PoolSize
                    THEN [keyDB EXCEPT
                            !.stringsDB = Append(@, [array |-> keys.array, len |-> 0]),
                            !.arrays[keys.array] = cleared]
                    ELSE [keyDB EXCEPT !.arrays = Dropped(@, keys.array)]
    /\ fr' = [fr EXCEPT ![p].keys = Fr0.keys]
    /\ pc' = [pc EXCEPT ![p] = "km_ret"]
    /\ UNCHANGED <<scopes, registry, registryMu, ctrs, ggs, hasReporter, fdb, reporter, hist>>

NextKeyMap ==
    \/ \E p \in KeyCallers, prefix \in KeyPrefixes, stringMap \in KeyTagMaps :
          \E order \in RangeOrders(stringMap) : KeyMapCall(p, prefix, stringMap, order)
    \/ \E p \in KeyCallers : KeyMapReturn(p)

SpecKeyMap == InitKeyMap /\ [][NextKeyMap]_vars

-----------------------------------------------------------------------------
(* Metric handles: the goroutines of Threads call Counter and Gauge on the *)
(* scopes of a tree that holds no metric yet.                              *)

InitMetrics ==
    /\ \E n \in TreeSizes :
          /\ scopes = TreeOf(n)
          /\ registry = RegistryOf(TreeOf(n))
    /\ ctrs = <<>>
    /\ ggs = <<>>
    /\ hist = Hist0
    /\ hasReporter \in BOOLEAN
    /\ reporter = NewReporter
    /\ fdb = NewFDB
    /\ keyDB = newKeyDB(PoolSize)
    /\ InitProcs(FALSE)

NextMetrics ==
    \/ \E p \in Threads, s \in ScopeIds, name \in CounterNames : CounterLookup(p, s, name)
    \/ \E p \in Threads : CounterCreate(p)
    \/ \E p \in Threads, s \in ScopeIds, name \in GaugeNames : GaugeLookup(p, s, name)
    \/ \E p \in Threads : GaugeCreate(p)
    \/ \E p \in Threads : MetricReturn(p)

SpecMetrics == InitMetrics /\ [][NextMetrics]_vars

-----------------------------------------------------------------------------
(* Gauges: the same trees with the gauge "g" created in the youngest       *)
(* scope; the goroutines of Callers call Report and Close, the others      *)
(* call Update.                                                            *)

Updaters == Threads \ Callers

InitGauges ==
    /\ \E n \in TreeSizes :
          /\ scopes = WithGauge(TreeOf(n))
          /\ registry = RegistryOf(TreeOf(n))
    /\ ctrs = <<>>
    /\ ggs = <<newGauge>>
    /\ hist = [Hist0 EXCEPT !.upd = <<"none">>, !.last = <<"none">>,
                            !.gaugeEmit = <<"none">>, !.gaugeCalls = <<0>>]
    /\ hasReporter \in BOOLEAN
    /\ reporter = NewReporter
    /\ fdb = NewFDB
    /\ keyDB = newKeyDB(PoolSize)
    /\ \E running \in BOOLEAN : InitProcs(running)

NextGauges ==
    \/ \E p \in Updaters, g \in 1 .. Len(ggs), x \in UpdateValues : UpdateStore(p, g, x)
    \/ \E p \in Updaters : UpdateFlag(p)
    \/ \E p \in Callers, s \in ScopeIds : Report(p, s)
    \/ \E p \in Procs : reportLoopRun(p)
    \/ \E p \in Procs : reportRegistryWithLock(p)
    \/ \E p \in Procs : RangeSubscopes(p)
    \/ \E p \in Procs : RangeCounters(p)
    \/ \E p \in Procs : GaugesLock(p)
    \/ \E p \in Procs : RangeGauges(p)
    \/ \E p \in Procs : GaugeSwap(p)
    \/ \E p \in Procs : GaugeReport(p)
    \/ \E p \in Procs : ScopeFlush(p)
    \/ \E p \in Procs : FlushPost(p)
    \/ \E p \in Procs : FlushReturn(p)
    \/ \E p \in Procs : RegistryUnlock(p)
    \/ \E p \in Procs : StatusUnlock(p)
    \/ LoopTick
    \/ LoopQuit
    \/ \E p \in Callers : Close(p)
    \/ \E p \in Callers : CloseLock(p)
    \/ \E p \in Callers : CloseUnlock(p)
    \/ \E p \in Callers : CloseReturn(p)

SpecGauges == InitGauges /\ [][NextGauges]_vars

-----------------------------------------------------------------------------
(* Concurrent writers: every goroutine of Threads calls Update on the      *)
(* gauge while the timer goroutine makes the flush passes.                 *)

InitUpdates ==
    /\ \E n \in TreeSizes :
          /\ scopes = WithGauge(TreeOf(n))
          /\ registry = RegistryOf(TreeOf(n))
    /\ ctrs = <<>>
    /\ ggs = <<newGauge>>
    /\ hist = [Hist0 EXCEPT !.upd = <<"none">>, !.last = <<"none">>,
                            !.gaugeEmit = <<"none">>, !.gaugeCalls = <<0>>]
    /\ hasReporter \in BOOLEAN
    /\ reporter = NewReporter
    /\ fdb = NewFDB
    /\ keyDB = newKeyDB(PoolSize)
    /\ InitProcs(TRUE)

NextUpdates ==
    \/ \E p \in Threads, g \in 1 .. Len(ggs), x \in UpdateValues : UpdateStore(p, g, x)
    \/ \E p \in Threads : UpdateFlag(p)
    \/ LoopTick
    \/ reportLoopRun(Timer)
    \/ reportRegistryWithLock(Timer)
    \/ RangeSubscopes(Timer)
    \/ RangeCounters(Timer)
    \/ GaugesLock(Timer)
    \/ RangeGauges(Timer)
    \/ GaugeSwap(Timer)
    \/ GaugeReport(Timer)
    \/ ScopeFlush(Timer)
    \/ FlushPost(Timer)
    \/ FlushReturn(Timer)
    \/ RegistryUnlock(Timer)
    \/ StatusUnlock(Timer)

SpecUpdates == InitUpdates /\ [][NextUpdates]_vars

-----------------------------------------------------------------------------
(* Properties of counters under SpecReport. *)

CounterIds == 1 .. Len(ctrs)

(* The delta a flush pass holds for counter c: returned by counter.value,  *)
(* not yet passed to ReportCounter.                                        *)
InHand(c) ==
    IF \E q \in Procs : pc[q] = "cr_call" /\ fr[q].obj = c
    THEN fr[CHOOSE q \in Procs : pc[q] = "cr_call" /\ fr[q].obj = c].delta
    ELSE 0

Pending(c) == ctrs[c].curr - ctrs[c].prev

(* The calls of one kind, or for one metric object, in a pass's log. *)
CallsOf(log, call) == SelectSeq(log, LAMBDA e : e.call = call)
CallsFor(log, call, obj) == SelectSeq(log, LAMBDA e : e.call = call /\ e.obj = obj)

(* The scope that holds counter c, and the name it holds it under. *)
CounterScope(c) ==
    CHOOSE i \in ScopeIds : \E n \in DOMAIN scopes[i].counters : scopes[i].counters[n] = c
CounterName(c) ==
    CHOOSE n \in DOMAIN scopes[CounterScope(c)].counters :
        scopes[CounterScope(c)].counters[n] = c

(* A flush pass has made all its reporter calls. *)
PassDone(p) == pc[p] = "rr_unlock"

(* C1: no lost update and no double count. For every counter, in every    *)
(* state, the sum of the deltas passed to ReportCounter, plus the delta a  *)
(* flush pass has read and not yet passed on, plus the pending delta       *)
(* curr - prev, equals the sum of the arguments of all Inc calls; where no *)
(* flush is reading the counter this is emitted + pending = sum of Incs.   *)
C1_NoLostNoDouble ==
    \A c \in CounterIds :
        hist.emitted[c] + InHand(c) + Pending(c) = hist.incTotal[c]

(* An Inc landed while a flush pass was inside counter.value, and is pending. *)
C1_Witness ==
    \E p \in Procs :
        /\ pc[p] = "cr_call"
        /\ fr[p].delta = 1
        /\ ctrs[fr[p].obj].curr = 3
        /\ Pending(fr[p].obj) = 2
        /\ fr[p].op = "Close"

(* C2: counter.value returns exactly the sum of the Inc calls made since   *)
(* the previous counter.value read the counter, and so 0 when there was    *)
(* none.                                                                   *)
C2_SequentialConsume ==
    \A p \in Procs : pc[p] = "cr_call" => fr[p].delta = fr[p].expect

(* A consume returns 0 right after a consume that returned 3 for three Incs. *)
C2_Witness ==
    \E p \in Procs :
        /\ pc[p] = "cr_call"
        /\ fr[p].delta = 0
        /\ hist.lastEmit[fr[p].obj] = 3
        /\ hist.emitted[fr[p].obj] = 3
        /\ hist.incCalls = 3

(* C3: a flush pass with a reporter that no Inc overlaps calls             *)
(* ReportCounter exactly once, with (fully qualified name, scope tags, S), *)
(* for every counter whose Incs since the previous pass sum to S # 0, and  *)
(* not at all for a counter without Incs since the previous pass; on a     *)
(* tree that is the root scope alone it calls Flush once.                  *)
C3_FlushPassEmission ==
    \A p \in Procs :
        PassDone(p) /\ hasReporter /\ fr[p].quiet =>
            /\ \A c \in CounterIds :
                  LET S == fr[p].start.c[c]
                      ss == scopes[CounterScope(c)]
                      calls == CallsFor(fr[p].log, "ReportCounter", c)
                  IN  IF S # 0
                      THEN calls = <<ReportCounterCall(
                                       fullyQualifiedName(ss, CounterName(c)),
                                       ss.tags, S, c)>>
                      ELSE calls = <<>>
            /\ Len(scopes) = 1 => Len(CallsOf(fr[p].log, "Flush")) = 1

(* After one pass reported 3 for three Inc(1), the next pass on the root   *)
(* alone calls Flush and nothing else.                                     *)
C3_Witness ==
    \E p \in Procs :
        /\ PassDone(p) /\ hasReporter /\ fr[p].quiet
        /\ Len(scopes) = 1
        /\ fr[p].log = <<FlushCall>>
        /\ hist.lastEmit[1] = 3
        /\ hist.emitted[1] = 3
        /\ hist.incCalls = 3

(* C4: every flush pass with a reporter calls Flush exactly once, as its   *)
(* last reporter call.                                                     *)
C4_FlushOncePerPass ==
    \A p \in Procs :
        PassDone(p) /\ hasReporter =>
            /\ Len(CallsOf(fr[p].log, "Flush")) = 1
            /\ fr[p].log[Len(fr[p].log)] = FlushCall

(* A flush pass is inside counter.value of counter c, or holds what it returned. *)
Consuming(q, c) == pc[q] \in {"cv_curr", "cv_prev", "cv_store", "cr_call"} /\ fr[q].obj = c

(* C13: the passes of two goroutines never run counter.value on one        *)
(* counter at the same time, so two consumes do not subtract the same      *)
(* interval twice: the deltas counter.value has returned never sum to more *)
(* than the Incs, and the consume that follows a consume without an Inc in *)
(* between returns 0 whichever goroutine makes it.                         *)
C13_NoDoubleSubtract ==
    \A c \in CounterIds :
        /\ Cardinality({q \in Procs : Consuming(q, c)}) <= 1
        /\ hist.emitted[c] + InHand(c) <= hist.incTotal[c]
        /\ \A q \in Procs :
              pc[q] = "cr_call" /\ fr[q].obj = c /\ fr[q].expect = 0 => fr[q].delta = 0

(* The timer's pass holds the nonzero delta of the interval while a Report *)
(* call of another goroutine, made during that pass, waits to consume the  *)
(* same counter.                                                           *)
C13_Witness ==
    /\ pc[Timer] = "cr_call" /\ fr[Timer].delta = 3
    /\ \E q \in Threads : pc[q] = "rr_lock" /\ fr[q].op = "Report"
    /\ hist.incTotal[fr[Timer].obj] = 3

-----------------------------------------------------------------------------
(* Properties of shutdown and of the flush passes under SpecShutdown. *)

(* C5: Close is idempotent. Over any number of Close calls there is at     *)
(* most one final flush pass and one close of the quit channel, never a    *)
(* close of a closed channel; when a Close call returns the root is closed *)
(* and exactly one final pass has been made; a call that found the scope   *)
(* closed returns nil without a reporter call.                             *)
C5_CloseIdempotent ==
    /\ hist.finalPasses <= 1
    /\ hist.quitCloses <= 1
    /\ ~hist.panicked
    /\ \A p \in Threads :
          pc[p] = "cl_ret" =>
              /\ scopes[Root].closed
              /\ hist.finalPasses = 1
              /\ hist.quitCloses = 1
              /\ ~fr[p].first => fr[p].log = <<>> /\ fr[p].err = "nil"

(* Two concurrent Close calls have returned: one made the final pass. *)
C5_Witness ==
    \E p, q \in Threads :
        /\ p # q
        /\ pc[p] = "cl_ret" /\ fr[p].first /\ fr[p].log # <<>>
        /\ pc[q] = "cl_ret" /\ ~fr[q].first

(* C6: a Close call does not start its final pass, and does not return,    *)
(* before every flush pass on the root (of the timer or of Report on the   *)
(* root) that was in flight when it was called has made its last reporter  *)
(* call and released the registry; no other pass traverses the registry    *)
(* during the final pass.                                                  *)
C6_CloseWaitsForPass ==
    \A p \in Threads :
        fr[p].op = "Close" /\ pc[p] \in TraverseLocs \cup {"cl_unlock", "cl_ret"} =>
            /\ fr[p].inflight = {}
            /\ InPass(p) => \A q \in Procs \ {p} : ~InPass(q)

(* A Close called during a pass has made its own final pass and returned. *)
C6_Witness ==
    \E p \in Threads :
        /\ pc[p] = "cl_ret"
        /\ fr[p].first /\ fr[p].waited
        /\ fr[p].log # <<>>

(* C8: at most one flush pass traverses the registry and calls the         *)
(* reporter at any time.                                                   *)
C8_PassesExclusive == Cardinality({q \in Procs : InPass(q)}) <= 1

(* One pass is between two reporter calls while two more callers wait for  *)
(* the registry or the status lock.                                        *)
C8_Witness ==
    \E p, q \in Procs :
        /\ p # q
        /\ InPass(p) /\ fr[p].log # <<>>
        /\ pc[q] = "rr_lock" /\ fr[q].op = "Report"

(* The timer goroutine is gone: it returned from reportLoop, or was never started. *)
TimerGone == pc[Timer] \in {"exited", "none"}

(* The timer goroutine is inside a flush pass, or about to traverse the registry. *)
TimerInPass == pc[Timer] \in {"rr_lock", "rl_unlock"} \cup TraverseLocs

(* C7: the Close call that closes the root has made exactly one final pass *)
(* when it returns (with a reporter: its reporter calls are made); once it *)
(* has returned the timer goroutine is never again inside a flush pass;    *)
(* and the timer goroutine eventually exits.                               *)
C7_ShutdownProtocol ==
    /\ [](\A p \in Threads :
            pc[p] = "cl_ret" /\ fr[p].first =>
                /\ hist.finalPasses = 1
                /\ hasReporter => CallsOf(fr[p].log, "Flush") # <<>>)
    /\ [](hist.closeReturned => ~TimerInPass)
    /\ (hist.closeReturned ~> TimerGone)

(* After Close has returned the timer goroutine has taken a tick and calls *)
(* reportLoopRun.                                                          *)
C7_Witness ==
    /\ hist.closeReturned
    /\ hasReporter
    /\ pc[Timer] = "rl_lock"

-----------------------------------------------------------------------------
(* Properties of the registry under SpecScopes. *)

Identity(i) == KeyMap(scopes[i].prefix, scopes[i].tags)

(* C9: every scope object ever allocated is the registry's scope for its   *)
(* own identity, so no identity has two objects and no registered scope is *)
(* ever replaced; every Tagged or SubScope call returns the registry's     *)
(* scope for the identity it computed, so calls with one identity return   *)
(* one object.                                                             *)
C9_RegistryUnique ==
    /\ \A i \in ScopeIds :
          Identity(i) \in DOMAIN registry /\ registry[Identity(i)] = i
    /\ \A p \in Threads :
          pc[p] = "sub_ret" =>
              /\ fr[p].key \in DOMAIN registry
              /\ fr[p].ret = registry[fr[p].key]
              /\ Identity(fr[p].ret) = fr[p].key
    /\ \A p, q \in Threads :
          pc[p] = "sub_ret" /\ pc[q] = "sub_ret" /\ fr[p].key = fr[q].key =>
              fr[p].ret = fr[q].ret

(* Two concurrent derivations of one identity both missed the first        *)
(* lookup; one allocated the scope and the other received it.              *)
C9_Witness ==
    \E p, q \in Threads :
        /\ pc[p] = "sub_ret" /\ fr[p].path = "created"
        /\ pc[q] = "sub_ret" /\ fr[q].path = "lost"
        /\ fr[p].key = fr[q].key
        /\ fr[p].ret = fr[q].ret

-----------------------------------------------------------------------------
(* Properties of Tagged and SubScope under SpecTags. *)

(* A Tagged, or SubScope, call of p has its result in hand. *)
TaggedDone(p) == pc[p] = "sub_ret" /\ fr[p].call = "Tagged"
SubScopeDone(p) == pc[p] = "sub_ret" /\ fr[p].call = "SubScope"

(* The tag set a overridden by the tag set b. *)
Overridden(a, b) ==
    [k \in DOMAIN a \cup DOMAIN b |-> IF k \in DOMAIN b THEN b[k] ELSE a[k]]

(* C14: Tagged with a nil or empty map returns the scope it was called on, *)
(* found by the first lookup, so without an entry added to the registry.   *)
C14_TaggedEmptyIsSelf ==
    \A p \in Threads :
        TaggedDone(p) /\ MapLen(fr[p].extra) = 0 =>
            /\ fr[p].ret = fr[p].s
            /\ fr[p].path = "found"

(* Tagged(nil) on a derived scope that has tags returned that scope. *)
C14_Witness ==
    \E p \in Threads :
        /\ TaggedDone(p) /\ fr[p].extra = NilMap
        /\ fr[p].s # Root
        /\ MapLen(scopes[fr[p].s].tags) > 0
        /\ fr[p].ret = fr[p].s

(* C15: Tagged(extra) returns the scope with the receiver's prefix and     *)
(* with the receiver's tags overridden by extra; and no step changes the   *)
(* prefix or the tags of a scope that exists.                              *)
C15_TaggedOverrides ==
    /\ [](\A p \in Threads :
            TaggedDone(p) =>
                /\ scopes[fr[p].ret].prefix = scopes[fr[p].s].prefix
                /\ scopes[fr[p].ret].tags.kv =
                       Overridden(scopes[fr[p].s].tags.kv, fr[p].extra.kv))
    /\ [][\A i \in ScopeIds :
            /\ scopes'[i].tags = scopes[i].tags
            /\ scopes'[i].prefix = scopes[i].prefix]_vars

(* Tagged({a:1}) on the scope tagged {a:2, b:2} returned the scope tagged  *)
(* {a:1, b:2}.                                                             *)
C15_Witness ==
    \E p \in Threads :
        /\ TaggedDone(p)
        /\ fr[p].extra = MakeMap(<<"a">> :> <<"1">>)
        /\ scopes[fr[p].s].tags.kv = (<<"a">> :> <<"2">>) @@ (<<"b">> :> <<"2">>)
        /\ scopes[fr[p].ret].tags.kv = (<<"a">> :> <<"1">>) @@ (<<"b">> :> <<"2">>)

(* C16: SubScope(namePart) returns the scope whose prefix is namePart when *)
(* the receiver's prefix is empty and otherwise the receiver's prefix, the *)
(* separator and namePart, and whose tags are the receiver's; it is the    *)
(* registry's scope for that prefix and those tags, as for Tagged.         *)
C16_SubScopePrefix ==
    \A p \in Threads :
        SubScopeDone(p) =>
            LET recv == scopes[fr[p].s]
                ret == scopes[fr[p].ret]
            IN  /\ ret.prefix = IF recv.prefix = <<>> THEN fr[p].name
                                ELSE recv.prefix \o recv.separator \o fr[p].name
                /\ ret.tags.kv = recv.tags.kv
                /\ KeyMap(ret.prefix, ret.tags) \in DOMAIN registry
                /\ registry[KeyMap(ret.prefix, ret.tags)] = fr[p].ret

(* SubScope("x") on the scope with prefix "x" returned the scope "x.x"     *)
(* that an earlier call had created.                                       *)
C16_Witness ==
    \E p \in Threads :
        /\ SubScopeDone(p)
        /\ scopes[fr[p].s].prefix = <<"x">>
        /\ scopes[fr[p].ret].prefix = <<"x", ".", "x">>
        /\ fr[p].path = "found"

-----------------------------------------------------------------------------
(* Properties of KeyMap under SpecKeyMap. *)

(* The tag maps that hold a strict subset of the tags of stringMap. *)
StrictSubMaps(stringMap) ==
    {MakeMap([k \in K |-> stringMap.kv[k]]) :
        K \in (SUBSET DOMAIN stringMap.kv) \ {DOMAIN stringMap.kv}}

(* C18: the string KeyMap returns is the same for every order in which the *)
(* range yields the tags (and is the string built from the sorted key      *)
(* set), and differs from the string for the same prefix with any strict   *)
(* subset of the tags.                                                     *)
C18_KeyMapOrderFree ==
    \A p \in KeyCallers :
        pc[p] = "km_ret" =>
            /\ \A order \in RangeOrders(fr[p].tags) :
                  KeyMapIn(fr[p].prefix, fr[p].tags, order) = fr[p].key
            /\ KeyMap(fr[p].prefix, fr[p].tags) = fr[p].key
            /\ \A sub \in StrictSubMaps(fr[p].tags) :
                  \A order \in RangeOrders(sub) :
                      KeyMapIn(fr[p].prefix, sub, order) # fr[p].key

(* KeyMap("x", {"b":"2","a":"1"}) with the range yielding "b" first        *)
(* returned "x+a=1,b=2".                                                   *)
C18_Witness ==
    \E p \in KeyCallers :
        /\ pc[p] = "km_ret"
        /\ fr[p].order = <<<<"b">>, <<"a">>>>
        /\ fr[p].prefix = <<"x">>
        /\ fr[p].key = <<"x", "+", "a", "=", "1", ",", "b", "=", "2">>

(* C19: on tag keys and values without '=', ',' and '+', two KeyMap calls  *)
(* with different prefixes or different tag sets return different strings. *)
C19_KeyMapInjective ==
    \A p, q \in KeyCallers :
        (/\ pc[p] = "km_ret" /\ pc[q] = "km_ret"
         /\ (fr[p].prefix # fr[q].prefix \/ fr[p].tags.kv # fr[q].tags.kv))
            => fr[p].key # fr[q].key

(* KeyMap("a=1", {}) returned "a=1+" and KeyMap("", {"a":"1"}) returned "a=1". *)
C19_Witness ==
    \E p, q \in KeyCallers :
        /\ pc[p] = "km_ret" /\ pc[q] = "km_ret"
        /\ fr[p].prefix = <<"a", "=", "1">> /\ MapLen(fr[p].tags) = 0
        /\ fr[p].key = <<"a", "=", "1", "+">>
        /\ fr[q].prefix = <<>>
        /\ fr[q].key = <<"a", "=", "1">>

-----------------------------------------------------------------------------
(* Properties of the metric handles under SpecMetrics. *)

(* The places (scope, name) that hold counter object c, or gauge object g. *)
CounterHolders(c) ==
    {<<i, n>> \in ScopeIds \X CounterNames :
        n \in DOMAIN scopes[i].counters /\ scopes[i].counters[n] = c}
GaugeHolders(g) ==
    {<<i, n>> \in ScopeIds \X GaugeNames :
        n \in DOMAIN scopes[i].gauges /\ scopes[i].gauges[n] = g}

(* C17: every Counter(name) and Gauge(name) call returns the handle the    *)
(* scope's map holds for the name, the map a flush pass ranges over; every *)
(* counter and gauge object ever created is held by exactly one scope and  *)
(* name; and no step removes or replaces an entry of a metric map.         *)
C17_HandleUnique ==
    /\ [](\A p \in Threads :
            /\ pc[p] = "ctr_ret" =>
                  /\ fr[p].name \in DOMAIN scopes[fr[p].s].counters
                  /\ scopes[fr[p].s].counters[fr[p].name] = fr[p].ret
            /\ pc[p] = "gg_ret" =>
                  /\ fr[p].name \in DOMAIN scopes[fr[p].s].gauges
                  /\ scopes[fr[p].s].gauges[fr[p].name] = fr[p].ret)
    /\ [](/\ \A c \in 1 .. Len(ctrs) : Cardinality(CounterHolders(c)) = 1
          /\ \A g \in 1 .. Len(ggs) : Cardinality(GaugeHolders(g)) = 1)
    /\ [][\A i \in ScopeIds :
            /\ \A n \in DOMAIN scopes[i].counters :
                  n \in DOMAIN scopes'[i].counters
                  /\ scopes'[i].counters[n] = scopes[i].counters[n]
            /\ \A n \in DOMAIN scopes[i].gauges :
                  n \in DOMAIN scopes'[i].gauges
                  /\ scopes'[i].gauges[n] = scopes[i].gauges[n]]_vars

(* Two concurrent first calls of Counter("c") on one scope both missed the *)
(* first lookup; one created the counter and both hold the same handle.    *)
C17_Witness ==
    \E p, q \in Threads :
        /\ pc[p] = "ctr_ret" /\ fr[p].path = "created"
        /\ pc[q] = "ctr_ret" /\ fr[q].path = "lost"
        /\ fr[p].s = fr[q].s /\ fr[p].name = fr[q].name
        /\ fr[p].ret = fr[q].ret

-----------------------------------------------------------------------------
(* Properties of gauges under SpecGauges. *)

GaugeIds == 1 .. Len(ggs)

GaugeScope(g) ==
    CHOOSE i \in ScopeIds : \E n \in DOMAIN scopes[i].gauges : scopes[i].gauges[n] = g
GaugeName(g) ==
    CHOOSE n \in DOMAIN scopes[GaugeScope(g)].gauges : scopes[GaugeScope(g)].gauges[n] = g

(* C10: a flush pass with a reporter that no Update overlaps calls         *)
(* ReportGauge exactly once, with value x, for a gauge whose last Update   *)
(* since the previous pass was Update(x), made alone; for a gauge without  *)
(* an Update since the previous pass it makes no call, and the stored      *)
(* value is still the x of the last Update.                                *)
C10_SequentialGauge ==
    \A p \in Procs :
        PassDone(p) /\ hasReporter /\ fr[p].quiet =>
            \A g \in GaugeIds :
                LET x == fr[p].start.g[g]
                    ss == scopes[GaugeScope(g)]
                    calls == CallsFor(fr[p].log, "ReportGauge", g)
                    stored == Float64frombits(ggs[g].curr)
                IN  /\ x \in GaugeValues =>
                          /\ calls = <<ReportGaugeCall(
                                         fullyQualifiedName(ss, GaugeName(g)),
                                         ss.tags, x, g)>>
                          /\ stored = x
                    /\ x = "none" =>
                          /\ calls = <<>>
                          /\ hist.last[g] \in GaugeValues => stored = hist.last[g]

(* The pass after the one that reported Update(7.5) makes no ReportGauge call. *)
C10_Witness ==
    \E p \in Procs :
        /\ PassDone(p) /\ hasReporter /\ fr[p].quiet
        /\ CallsOf(fr[p].log, "ReportGauge") = <<>>
        /\ fr[p].start.g[1] = "none"
        /\ hist.last[1] = "7.5"
        /\ hist.gaugeEmit[1] = "7.5"

-----------------------------------------------------------------------------
(* Properties of gauges with concurrent writers under SpecUpdates. *)

(* Update calls on gauge g that have returned. *)
Completed(g) == hist.updCalls - Cardinality({q \in Procs : Updating(q, g)})

(* A flush pass has swapped the flag of gauge g from 1 and not yet called ReportGauge. *)
Swapped(g) == IF \E q \in Procs : pc[q] = "gr_call" /\ fr[q].obj = g THEN 1 ELSE 0

(* C11: every ReportGauge call consumes the flag one completed Update set, *)
(* so the ReportGauge calls for a gauge, made or about to be made, never   *)
(* outnumber its completed Updates; a single Update call makes the gauge   *)
(* emitted in at most one pass, whatever flush it arrives in.              *)
C11_UpdateOnePass ==
    \A g \in GaugeIds :
        /\ hist.gaugeCalls[g] + Swapped(g) + ggs[g].updated <= Completed(g)
        /\ hist.updCalls = 1 => hist.gaugeCalls[g] <= 1

(* The single Update arrived during a flush pass, after the pass had read  *)
(* the flag: that pass has made no ReportGauge call and the flag is set    *)
(* for the next pass.                                                      *)
C11_Witness ==
    /\ hasReporter
    /\ PassDone(Timer) /\ ~fr[Timer].quiet
    /\ CallsOf(fr[Timer].log, "ReportGauge") = <<>>
    /\ hist.updCalls = 1 /\ Completed(1) = 1
    /\ hist.gaugeCalls[1] = 0
    /\ ggs[1].updated = 1

(* C12: no Update is lost. While an Update that has returned has not been  *)
(* read by a flush pass the flag is set, so the next gauge.report emits    *)
(* the gauge; ReportGauge carries the value stored when it is read; and    *)
(* when every Update has returned and the flag is clear, the last          *)
(* ReportGauge call carried the value the gauge holds.                     *)
C12_UpdateNeverLost ==
    \A g \in GaugeIds :
        /\ hist.upd[g] # "none" => ggs[g].updated = 1
        /\ (/\ Completed(g) = hist.updCalls
            /\ hist.updCalls > 0
            /\ ggs[g].updated = 0
            /\ Swapped(g) = 0)
              => hist.gaugeEmit[g] = Float64frombits(ggs[g].curr)

(* Two writers overlapped; both have returned and the pass that followed   *)
(* reported the value stored last.                                         *)
C12_Witness ==
    /\ hasReporter
    /\ hist.updCalls = 2 /\ Completed(1) = 2
    /\ hist.last[1] = "any"
    /\ ggs[1].updated = 0 /\ Swapped(1) = 0
    /\ hist.gaugeCalls[1] = 1
    /\ hist.gaugeEmit[1] = "7.5"

-----------------------------------------------------------------------------
(* Snapshots beside the timer's passes: one goroutine calls Snapshot, the  *)
(* producers call Inc, the report loop flushes. The gauge is new, or one   *)
(* Update(x) of it has returned and no pass has reported it yet.           *)
UpdatedGauge(x) == [updated |-> 1, curr |-> Float64bits(x)]

InitSnapshot ==
    /\ \E n \in TreeSizes :
          /\ scopes = WithGauge(WithCounter(TreeOf(n)))
          /\ registry = RegistryOf(TreeOf(n))
    /\ ctrs = <<newCounter>>
    /\ \E x \in UpdateValues \cup {"none"} :
          /\ ggs = <<IF x = "none" THEN newGauge ELSE UpdatedGauge(x)>>
          /\ hist = [Hist0 EXCEPT !.incTotal = <<0>>, !.emitted = <<0>>,
                                  !.sinceRead = <<0>>, !.lastEmit = <<0>>,
                                  !.upd = <<x>>, !.last = <<x>>,
                                  !.gaugeEmit = <<"none">>, !.gaugeCalls = <<0>>,
                                  !.updCalls = IF x = "none" THEN 0 ELSE 1]
    /\ hasReporter = TRUE
    /\ reporter = NewReporter
    /\ fdb = NewFDB
    /\ keyDB = newKeyDB(PoolSize)
    /\ InitProcs(TRUE)

NextSnapshot ==
    \/ \E c \in 1 .. Len(ctrs), v \in IncValues : Inc(c, v)
    \/ \E p \in Callers, s \in ScopeIds : Snapshot(p, s)
    \/ \E p \in Callers : SnapshotLock(p)
    \/ \E p \in Callers : SnapshotRange(p)
    \/ \E p \in Callers : SnapshotCounters(p)
    \/ \E p \in Callers : SnapshotLoadCurr(p)
    \/ \E p \in Callers : SnapshotLoadPrev(p)
    \/ \E p \in Callers : SnapshotGaugesLock(p)
    \/ \E p \in Callers : SnapshotGauges(p)
    \/ \E p \in Callers : SnapshotReturn(p)
    \/ LoopTick
    \/ reportLoopRun(Timer)
    \/ reportRegistryWithLock(Timer)
    \/ RangeSubscopes(Timer)
    \/ RangeCounters(Timer)
    \/ ValueLoadCurr(Timer)
    \/ ValueLoadPrev(Timer)
    \/ ValueStore(Timer)
    \/ CounterReport(Timer)
    \/ GaugesLock(Timer)
    \/ RangeGauges(Timer)
    \/ GaugeSwap(Timer)
    \/ GaugeReport(Timer)
    \/ ScopeFlush(Timer)
    \/ FlushPost(Timer)
    \/ FlushReturn(Timer)
    \/ RegistryUnlock(Timer)
    \/ StatusUnlock(Timer)

SpecSnapshot == InitSnapshot /\ [][NextSnapshot]_vars

(* p has moved inside a Snapshot call in the step. *)
SnapshotStep(p) ==
    /\ fr[p].op = "Snapshot"
    /\ pc'[p] # pc[p] \/ fr'[p] # fr[p]

(* The entries of the snapshot p is about to hand to its caller. *)
SnapshotCountersOf(p) == {fr[p].snap.counters[k] : k \in DOMAIN fr[p].snap.counters}
SnapshotGaugesOf(p) == {fr[p].snap.gauges[k] : k \in DOMAIN fr[p].snap.gauges}

(* C20: Snapshot() is read-only. Every counter entry of a snapshot is the  *)
(* sum of the increments since the last report of that counter (current    *)
(* minus baseline), every gauge entry is the last value set (zero when     *)
(* none was), no step of Snapshot changes a counter's total or baseline or *)
(* a gauge's value or dirty flag, and with Snapshot calls in between a     *)
(* flush pass still emits every increment since the previous pass and      *)
(* still finds the flag of every unreported Update set.                    *)
C20_SnapshotReadOnly ==
    /\ [](\A p \in Threads :
            /\ \A e \in SnapshotCountersOf(p) : e.value = e.expect
            /\ \A e \in SnapshotGaugesOf(p) :
                  /\ e.expect \in GaugeValues => e.value = e.expect
                  /\ e.expect = "none" => e.value = Float64frombits(<<0, 0>>)
            /\ pc[p] = "sn_ret" =>
                  /\ registryMu # p
                  /\ \A s \in ScopeIds : scopes[s].cm # p /\ scopes[s].gm # p)
    /\ [](\A q \in Procs : pc[q] = "cr_call" => fr[q].delta = fr[q].expect)
    /\ [](\A g \in 1 .. Len(ggs) : hist.upd[g] # "none" => ggs[g].updated = 1)
    /\ [][\A p \in Threads : SnapshotStep(p) => ctrs' = ctrs /\ ggs' = ggs]_vars

(* A snapshot showing three unreported increments is still in its caller's *)
(* hands while the next pass emits the same three.                         *)
C20_Witness ==
    /\ \E p \in Threads :
          /\ pc[p] = "sn_ret"
          /\ \E e \in SnapshotCountersOf(p) : e.value = 3
          /\ \E e \in SnapshotGaugesOf(p) : e.expect \in GaugeValues /\ e.value = e.expect
    /\ pc[Timer] = "cr_call"
    /\ fr[Timer].delta = 3

-----------------------------------------------------------------------------
(* Locks and reporter I/O. *)

(* p is inside a method of the reporter. *)
InReporter(p) ==
    \/ pc[p] = "cr_call" /\ fr[p].delta # 0
    \/ pc[p] = "gr_call"
    \/ pc[p] \in {"rep_flush", "rf_post", "rf_ret"}

(* C21: the registry lock is never held while a reporter method            *)
(* (ReportCounter, ReportGauge, Flush) is executing.                       *)
C21_RegistryFreeInReporter ==
    \A p \in Procs : InReporter(p) => registryMu = NoProc

-----------------------------------------------------------------------------
(* The hot path beside everything else: one goroutine calls Report,        *)
(* Snapshot, Tagged and Close on the root, the producers call Inc and      *)
(* Update on the metrics of a tree that is already built.                  *)
InitHotPath ==
    /\ scopes = WithGauge(WithCounter(TreeOf(1)))
    /\ registry = RegistryOf(TreeOf(1))
    /\ ctrs = <<newCounter>>
    /\ ggs = <<newGauge>>
    /\ hist = [Hist0 EXCEPT !.incTotal = <<0>>, !.emitted = <<0>>,
                            !.sinceRead = <<0>>, !.lastEmit = <<0>>,
                            !.upd = <<"none">>, !.last = <<"none">>,
                            !.gaugeEmit = <<"none">>, !.gaugeCalls = <<0>>]
    /\ hasReporter = TRUE
    /\ reporter = NewReporter
    /\ fdb = NewFDB
    /\ keyDB = newKeyDB(PoolSize)
    /\ InitProcs(FALSE)

NextHotPath ==
    \/ \E c \in 1 .. Len(ctrs) : Inc(c, 1)
    \/ \E p \in Updaters, g \in 1 .. Len(ggs) : UpdateStore(p, g, "5.0")
    \/ \E p \in Updaters : UpdateFlag(p)
    \/ \E p \in Callers : Tagged(p, Root, MakeMap(<<"a">> :> <<"1">>))
    \/ \E p \in Callers : newSubscope(p)
    \/ \E p \in Callers : SubscopeReturn(p)
    \/ \E p \in Callers : Snapshot(p, Root)
    \/ \E p \in Callers : SnapshotLock(p)
    \/ \E p \in Callers : SnapshotRange(p)
    \/ \E p \in Callers : SnapshotCounters(p)
    \/ \E p \in Callers : SnapshotLoadCurr(p)
    \/ \E p \in Callers : SnapshotLoadPrev(p)
    \/ \E p \in Callers : SnapshotGaugesLock(p)
    \/ \E p \in Callers : SnapshotGauges(p)
    \/ \E p \in Callers : SnapshotReturn(p)
    \/ \E p \in Callers : Report(p, Root)
    \/ \E p \in Callers : reportLoopRun(p)
    \/ \E p \in Callers : reportRegistryWithLock(p)
    \/ \E p \in Callers : RangeSubscopes(p)
    \/ \E p \in Callers : RangeCounters(p)
    \/ \E p \in Callers : ValueLoadCurr(p)
    \/ \E p \in Callers : ValueLoadPrev(p)
    \/ \E p \in Callers : ValueStore(p)
    \/ \E p \in Callers : CounterReport(p)
    \/ \E p \in Callers : GaugesLock(p)
    \/ \E p \in Callers : RangeGauges(p)
    \/ \E p \in Callers : GaugeSwap(p)
    \/ \E p \in Callers : GaugeReport(p)
    \/ \E p \in Callers : ScopeFlush(p)
    \/ \E p \in Callers : FlushPost(p)
    \/ \E p \in Callers : FlushReturn(p)
    \/ \E p \in Callers : RegistryUnlock(p)
    \/ \E p \in Callers : StatusUnlock(p)
    \/ \E p \in Callers : Close(p)
    \/ \E p \in Callers : CloseLock(p)
    \/ \E p \in Callers : CloseUnlock(p)
    \/ \E p \in Callers : CloseReturn(p)

SpecHotPath == InitHotPath /\ [][NextHotPath]_vars

(* The locks of the system: the registry's and every scope's three. *)
Locks ==
    [registry |-> registryMu,
     scope |-> [s \in 1 .. Len(scopes) |->
                  <<scopes[s].statusMu, scopes[s].cm, scopes[s].gm>>]]

(* The step is one of Inc or Update: a counter's total grows, a gauge's    *)
(* value is stored or its flag is raised.                                  *)
RecordingStep ==
    \/ \E c \in 1 .. Len(ctrs) : ctrs'[c].curr # ctrs[c].curr
    \/ \E g \in 1 .. Len(ggs) :
          \/ ggs'[g].curr # ggs[g].curr
          \/ ggs'[g].updated > ggs[g].updated
    \/ \E p \in Threads : pc[p] = "upd_flag" /\ pc'[p] = "idle"
    \/ hist'.updCalls # hist.updCalls

(* C22: Inc and Update never block. Whatever the other goroutines are      *)
(* doing (a pass at a reporter call, a Snapshot, a derivation, a Close),   *)
(* every Inc and both stores of every Update can be taken at once, and     *)
(* taking them acquires or releases no lock.                               *)
C22_HotPathNeverBlocks ==
    /\ [](/\ \A c \in 1 .. Len(ctrs) : hist.incCalls < MaxIncs => ENABLED Inc(c, 1)
          /\ \A p \in Updaters, g \in 1 .. Len(ggs) :
                pc[p] = "idle" /\ hist.updCalls < MaxUpdates
                   => ENABLED UpdateStore(p, g, "5.0")
          /\ \A p \in Updaters : pc[p] = "upd_flag" => ENABLED UpdateFlag(p))
    /\ [][RecordingStep => Locks' = Locks]_vars

(* An Inc and an Update have completed while the pass of Report was at a   *)
(* reporter call, holding the registry lock and the lock of a metric map.  *)
C22_Witness ==
    \E p \in Callers :
        /\ InReporter(p)
        /\ registryMu = p
        /\ \E s \in 1 .. Len(scopes) : scopes[s].cm = p \/ scopes[s].gm = p
        /\ ~fr[p].quiet
        /\ hist.incCalls > 0
        /\ hist.updCalls > 0
        /\ \A q \in Updaters : pc[q] = "idle"

-----------------------------------------------------------------------------
(* The flush interval: NewRootScope is called with a negative, a zero or a *)
(* positive interval; the history keeps the interval passed.               *)
Intervals == {-1, 0, 1}

InitInterval ==
    /\ \E n \in TreeSizes :
          /\ scopes = WithCounter(TreeOf(n))
          /\ registry = RegistryOf(TreeOf(n))
    /\ ctrs = <<newCounter>>
    /\ ggs = <<>>
    /\ hasReporter = TRUE
    /\ reporter = NewReporter
    /\ fdb = NewFDB
    /\ keyDB = newKeyDB(PoolSize)
    /\ \E reportInterval \in Intervals :
          /\ InitProcs(Started(reportInterval))
          /\ hist = [Hist0 EXCEPT !.incTotal = <<0>>, !.emitted = <<0>>,
                                  !.sinceRead = <<0>>, !.lastEmit = <<0>>,
                                  !.interval = reportInterval]

SpecInterval == InitInterval /\ [][NextReport]_vars

(* The pass p is in was started by Report, by the tick or by Close. *)
PassOf(p) == IF InPass(p) THEN fr[p].op ELSE "none"

(* C23: a non-positive flush interval is no error. The root scope exists   *)
(* and works (it is registered, open until Close, and Report on it reaches *)
(* the reporter), the report loop never runs, and passes come only from    *)
(* Report and from the one final pass of Close. With a positive interval   *)
(* the loop runs: until the scope is closed every tick can be taken and    *)
(* every tick taken starts a pass, and the loop ends only after Close.     *)
C23_NonPositiveInterval ==
    /\ [](hist.interval <= 0 =>
            /\ pc[Timer] = "none"
            /\ registry[KeyMap(scopes[Root].prefix, scopes[Root].tags)] = Root
            /\ ~hist.panicked
            /\ hist.quitCloses = 0 => ~scopes[Root].closed
            /\ \A p \in Procs : PassOf(p) \in {"none", "Report", "Close"}
            /\ hist.finalPasses <= 1)
    /\ [](hist.interval > 0 =>
            /\ pc[Timer] # "none"
            /\ pc[Timer] = "loop_select" => ENABLED LoopTick
            /\ pc[Timer] = "exited" => scopes[Root].closed)
    /\ [][pc[Timer] = "rl_lock" /\ pc'[Timer] # "rl_lock" =>
             IF scopes[Root].closed THEN pc'[Timer] = "loop_select"
             ELSE pc'[Timer] = "rr_lock" /\ scopes'[Root].statusMu = Timer]_vars

(* With the interval 0, a pass of Report has handed the reporter a delta   *)
(* although no loop runs.                                                  *)
C23_Witness ==
    /\ hist.interval = 0
    /\ pc[Timer] = "none"
    /\ \E p \in Threads :
          /\ PassOf(p) = "Report"
          /\ CallsOf(fr[p].log, "ReportCounter") # <<>>

-----------------------------------------------------------------------------
(* Flushes that fail: the timer's passes over the trees of InitSnapshot    *)
(* (a counter, and a gauge that is new or updated once), with producers   *)
(* calling Inc; every Post may fail.                                       *)
NextFlush ==
    \/ \E c \in 1 .. Len(ctrs), v \in IncValues : Inc(c, v)
    \/ LoopTick
    \/ reportLoopRun(Timer)
    \/ reportRegistryWithLock(Timer)
    \/ RangeSubscopes(Timer)
    \/ RangeCounters(Timer)
    \/ ValueLoadCurr(Timer)
    \/ ValueLoadPrev(Timer)
    \/ ValueStore(Timer)
    \/ CounterReport(Timer)
    \/ GaugesLock(Timer)
    \/ RangeGauges(Timer)
    \/ GaugeSwap(Timer)
    \/ GaugeReport(Timer)
    \/ ScopeFlush(Timer)
    \/ FlushPost(Timer)
    \/ FlushReturn(Timer)
    \/ RegistryUnlock(Timer)
    \/ StatusUnlock(Timer)

SpecFlush == InitSnapshot /\ [][NextFlush]_vars

(* The reporter calls of a pass since its last Flush but one, as the       *)
(* metrics the reporter makes of them. log ends with a Flush call.         *)
RECURSIVE LastFlush(_, _)
LastFlush(log, i) ==
    IF i = 0 THEN 0
    ELSE IF log[i].call = "Flush" THEN i
    ELSE LastFlush(log, i - 1)

AsMetrics(e) ==
    Metrics(e.name, IF e.call = "ReportCounter" THEN "counter" ELSE "gauge",
            e.value, e.obj)

ReportedSinceFlush(log) ==
    LET n == Len(log)
        k == LastFlush(log, n - 1)
    IN  [i \in 1 .. (n - 1 - k) |-> AsMetrics(log[k + i])]

(* p is in Flush and the batch has been taken out of the reporter. *)
Posting(p) == pc[p] \in {"rf_post", "rf_ret"}

(* C24: drop on failure. While a flush is at its transport call or has     *)
(* seen it fail, the reporter's buffer is empty and the batch is exactly   *)
(* what was reported since the previous flush; after a failed Post every   *)
(* counter of the batch has its baseline advanced (what is pending is the  *)
(* increments made since it was read) and every gauge of the batch has its *)
(* flag consumed (it is set only by a later Update); the failure changes   *)
(* no counter, gauge or buffer, so nothing is sent again; every delta      *)
(* handed to the reporter is the increments since the previous read, and   *)
(* total = emitted + pending for every counter no pass is reading.         *)
C24_DropOnFailure ==
    /\ [](\A p \in Procs : Posting(p) =>
             /\ reporter.metrics = <<>>
             /\ fr[p].batch = ReportedSinceFlush(fr[p].log))
    /\ [](\A p \in Procs : pc[p] = "rf_ret" /\ fr[p].postErr = "error" =>
             \A i \in 1 .. Len(fr[p].batch) :
                LET m == fr[p].batch[i]
                IN  /\ m.MType = "counter" =>
                          ctrs[m.obj].curr - ctrs[m.obj].prev = hist.sinceRead[m.obj]
                    /\ m.MType = "gauge" =>
                          (ggs[m.obj].updated = 1 <=> hist.upd[m.obj] # "none"))
    /\ [](\A p \in Procs : pc[p] = "cr_call" => fr[p].delta = fr[p].expect)
    /\ [](\A c \in 1 .. Len(ctrs) :
             (\A q \in Procs : ~Consuming(q, c)) =>
                /\ ctrs[c].curr - ctrs[c].prev = hist.sinceRead[c]
                /\ hist.incTotal[c] = hist.emitted[c] + hist.sinceRead[c])
    /\ [][\A p \in Procs : Posting(p) /\ pc'[p] # pc[p] =>
             /\ reporter'.metrics = <<>>
             /\ ctrs' = ctrs
             /\ ggs' = ggs]_vars

(* A Post has failed with a counter delta of 2 and a gauge value in its    *)
(* batch; the counter's baseline has moved and an increment made since is  *)
(* all that is pending.                                                    *)
C24_Witness ==
    \E p \in Procs :
        /\ pc[p] = "rf_ret"
        /\ fr[p].postErr = "error"
        /\ \E i \in 1 .. Len(fr[p].batch) :
              fr[p].batch[i].MType = "counter" /\ fr[p].batch[i].v = 2
        /\ \E i \in 1 .. Len(fr[p].batch) : fr[p].batch[i].MType = "gauge"
        /\ hist.sinceRead[1] = 1
        /\ ctrs[1].curr - ctrs[1].prev = 1
        /\ ggs[1].updated = 0

-----------------------------------------------------------------------------
(* Tags that hold the separators of the identity. *)
ReservedChars == {"=", ",", "+"}

ReservedInputs ==
    {MakeMap((<<"a">> :> <<"1">>) @@ (<<"b">> :> <<"2">>)),
     MakeMap(<<"a">> :> <<"1", ",", "b", "=", "2">>),
     MakeMap(<<"a", "=", "1", ",", "b">> :> <<"2">>),
     MakeMap(<<"b">> :> <<"2">>)}

NextReserved ==
    \/ \E p \in Callers, s \in ScopeIds, tags \in ReservedInputs : Tagged(p, s, tags)
    \/ \E p \in Callers : newSubscope(p)
    \/ \E p \in Callers : SubscopeReturn(p)

SpecReserved == Init /\ [][NextReserved]_vars

HasReserved(str) == \E i \in 1 .. Len(str) : str[i] \in ReservedChars

ReservedIn(tags) ==
    \E k \in DOMAIN tags.kv : HasReserved(k) \/ HasReserved(tags.kv[k])

(* C25: Tagged validates its input. A call whose tag keys or values hold   *)
(* '=', ',' or '+' returns no scope, and the scope a call returns has the  *)
(* prefix of the receiver and exactly the receiver's tags overridden by    *)
(* the argument: different (prefix, tags) pairs never share a scope.       *)
C25_ReservedRejected ==
    \A p \in Threads :
        TaggedDone(p) =>
            /\ ~ReservedIn(fr[p].extra)
            /\ scopes[fr[p].ret].prefix = scopes[fr[p].s].prefix
            /\ scopes[fr[p].ret].tags.kv =
                  Overridden(scopes[fr[p].s].tags.kv, fr[p].extra.kv)

(* C26: the locks of a scope's metric maps (cm, gm) are not held while a   *)
(* reporter method is executing, so a lookup of an existing name does not  *)
(* wait for the reporter.                                                  *)
C26_MetricLocksFreeInReporter ==
    \A p \in Procs :
        InReporter(p) =>
            \A s \in 1 .. Len(scopes) : scopes[s].cm # p /\ scopes[s].gm # p

-----------------------------------------------------------------------------
(* The pools of KeyMap: the goroutines of KeyCallers call KeyMap at the    *)
(* same time on pools of PoolSize objects each.                            *)

PoolPrefixes == {<<>>, <<"x">>}
PoolTagMaps ==
    {NilMap, MakeMap(<<"a">> :> <<"1">>),
     MakeMap((<<"a">> :> <<"1">>) @@ (<<"b">> :> <<"2">>))}

NextPool ==
    \/ \E p \in KeyCallers, prefix \in PoolPrefixes, stringMap \in PoolTagMaps :
          \E order \in RangeOrders(stringMap) : KeyMapGetKeys(p, prefix, stringMap, order)
    \/ \E p \in KeyCallers : KeyMapSort(p)
    \/ \E p \in KeyCallers : KeyMapGetBuf(p)
    \/ \E p \in KeyCallers : KeyMapWrite(p)
    \/ \E p \in KeyCallers : KeyMapReleaseBuf(p)
    \/ \E p \in KeyCallers : KeyMapReleaseKeys(p)
    \/ \E p \in KeyCallers : KeyMapReturn(p)

SpecPool == InitKeyMap /\ [][NextPool]_vars

HoldsKeys(p) == pc[p] \in {"kp_sort", "kp_buf", "kp_write", "kp_release", "kp_relkeys"}
HoldsBuf(p) == pc[p] \in {"kp_write", "kp_release"}
KeyMapStep(p) ==
    \/ KeyMapSort(p) \/ KeyMapGetBuf(p) \/ KeyMapWrite(p)
    \/ KeyMapReleaseBuf(p) \/ KeyMapReleaseKeys(p) \/ KeyMapReturn(p)

(* C27: a KeyMap call returns the string KeyMap gives on fresh pools,      *)
(* whatever the earlier and concurrent calls left in the pools or took     *)
(* out of them; the key slice and the buffer a call takes are empty when   *)
(* it takes them; no pooled object is held by two callers, or by a caller  *)
(* and a pool, at once; and no get or put ever waits.                      *)
C27_PoolIndependence ==
    /\ [](\A p \in KeyCallers :
            /\ pc[p] \in {"kp_release", "kp_relkeys", "km_ret"}
                  => fr[p].key = KeyMap(fr[p].prefix, fr[p].tags)
            /\ pc[p] = "kp_sort" => fr[p].keys.len = 0
            /\ pc[p] = "kp_write" => keyDB.bufs[fr[p].buf] = <<>>
            /\ HoldsKeys(p) =>
                  /\ \A i \in DOMAIN keyDB.stringsDB :
                        keyDB.stringsDB[i].array # fr[p].keys.array
                  /\ \A q \in KeyCallers \ {p} :
                        HoldsKeys(q) => fr[q].keys.array # fr[p].keys.array
            /\ HoldsBuf(p) =>
                  /\ \A i \in DOMAIN keyDB.bufferDB : keyDB.bufferDB[i] # fr[p].buf
                  /\ \A q \in KeyCallers \ {p} : HoldsBuf(q) => fr[q].buf # fr[p].buf
            /\ pc[p] = "idle" =>
                  ENABLED KeyMapGetKeys(p, <<"x">>, NilMap, <<>>)
            /\ pc[p] # "idle" => ENABLED KeyMapStep(p))
    /\ [](\A i \in DOMAIN keyDB.bufferDB : keyDB.bufs[keyDB.bufferDB[i]] = <<>>)
    /\ [](\A i \in DOMAIN keyDB.stringsDB : keyDB.stringsDB[i].len = 0)

(* Both pools are exhausted, and a call that allocated its buffer and its  *)
(* key slice has its key while another call holds the pooled objects.      *)
C27_Witness ==
    \E p, q \in KeyCallers :
        /\ p # q
        /\ pc[p] = "kp_release" /\ fr[p].fresh = {"keys", "buf"}
        /\ fr[p].key = <<"x", "+", "a", "=", "1", ",", "b", "=", "2">>
        /\ HoldsBuf(q) /\ fr[q].fresh = {}
        /\ keyDB.bufferDB = <<>> /\ keyDB.stringsDB = <<>>

-----------------------------------------------------------------------------------------------------------------------------------------------------
(* Locking: one goroutine calls Snapshot, Report and Close, the others     *)
(* call Counter, Gauge, Tagged and SubScope, and the timer ticks. The tree *)
(* starts as the root after root.Counter("c").Inc(1) and                   *)
(* root.Gauge("g").Update(5.0); root.Tagged({a: 1}) derives a scope, and   *)
(* root.SubScope("") finds the root again.                                 *)

(* The goroutine that creates metrics and derives scopes. *)
Creators == {2}

InitLocks ==
    /\ scopes = WithGauge(WithCounter(TreeOf(1)))
    /\ registry = RegistryOf(TreeOf(1))
    /\ ctrs = <<[newCounter EXCEPT !.curr = 1]>>
    /\ ggs = <<UpdatedGauge("5.0")>>
    /\ hist = [Hist0 EXCEPT !.incTotal = <<1>>, !.emitted = <<0>>,
                            !.sinceRead = <<1>>, !.lastEmit = <<0>>,
                            !.incCalls = 1,
                            !.upd = <<"5.0">>, !.last = <<"5.0">>,
                            !.gaugeEmit = <<"none">>, !.gaugeCalls = <<0>>,
                            !.updCalls = 1]
    /\ hasReporter = TRUE
    /\ reporter = NewReporter
    /\ fdb = NewFDB
    /\ keyDB = newKeyDB(PoolSize)
    /\ InitProcs(TRUE)

NextLocks ==
    \/ \E p \in Creators, s \in ScopeIds, name \in CounterNames : CounterLookup(p, s, name)
    \/ \E p \in Creators : CounterCreate(p)
    \/ \E p \in Creators, s \in ScopeIds, name \in GaugeNames : GaugeLookup(p, s, name)
    \/ \E p \in Creators : GaugeCreate(p)
    \/ \E p \in Creators : MetricReturn(p)
    \/ \E p \in Creators : Tagged(p, Root, MakeMap(<<"a">> :> <<"1">>))
    \/ \E p \in Creators : SubScope(p, Root, emptyString)
    \/ \E p \in Creators : newSubscope(p)
    \/ \E p \in Creators : SubscopeReturn(p)
    \/ \E p \in Callers, s \in ScopeIds : Snapshot(p, s)
    \/ \E p \in Callers : SnapshotLock(p)
    \/ \E p \in Callers : SnapshotRange(p)
    \/ \E p \in Callers : SnapshotCounters(p)
    \/ \E p \in Callers : SnapshotLoadCurr(p)
    \/ \E p \in Callers : SnapshotLoadPrev(p)
    \/ \E p \in Callers : SnapshotGaugesLock(p)
    \/ \E p \in Callers : SnapshotGauges(p)
    \/ \E p \in Callers : SnapshotReturn(p)
    \/ \E p \in Callers, s \in ScopeIds : Report(p, s)
    \/ \E p \in Procs : reportLoopRun(p)
    \/ \E p \in Procs : reportRegistryWithLock(p)
    \/ \E p \in Procs : RangeSubscopes(p)
    \/ \E p \in Procs : RangeCounters(p)
    \/ \E p \in Procs : ValueLoadCurr(p)
    \/ \E p \in Procs : ValueLoadPrev(p)
    \/ \E p \in Procs : ValueStore(p)
    \/ \E p \in Procs : CounterReport(p)
    \/ \E p \in Procs : GaugesLock(p)
    \/ \E p \in Procs : RangeGauges(p)
    \/ \E p \in Procs : GaugeSwap(p)
    \/ \E p \in Procs : GaugeReport(p)
    \/ \E p \in Procs : ScopeFlush(p)
    \/ \E p \in Procs : FlushPost(p)
    \/ \E p \in Procs : FlushReturn(p)
    \/ \E p \in Procs : RegistryUnlock(p)
    \/ \E p \in Procs : StatusUnlock(p)
    \/ LoopTick
    \/ LoopQuit
    \/ \E p \in Callers : Close(p)
    \/ \E p \in Callers : CloseLock(p)
    \/ \E p \in Callers : CloseUnlock(p)
    \/ \E p \in Callers : CloseReturn(p)

SpecLocks == InitLocks /\ [][NextLocks]_vars

(* The locks as <<kind, scope>>; the registry's lock is the root's.        *)
LockRank(kind) ==
    CASE kind = "status" -> 1
      [] kind = "registry" -> 2
      [] kind = "cm" -> 3
      [] kind = "gm" -> 4

Holder(l) ==
    CASE l[1] = "status" -> scopes[l[2]].statusMu
      [] l[1] = "registry" -> registryMu
      [] l[1] = "cm" -> scopes[l[2]].cm
      [] l[1] = "gm" -> scopes[l[2]].gm

AllLocks ==
    {<<"registry", Root>>} \cup ({"status", "cm", "gm"} \X (1 .. Len(scopes)))

HeldBy(p) == {l \in AllLocks : Holder(l) = p}

(* The locks the next step of p may acquire. *)
Wanted(p) ==
    CASE pc[p] \in {"rl_lock", "cl_lock"} -> {<<"status", fr[p].s>>}
      [] pc[p] \in {"rr_lock", "ns_lock", "sn_lock"} -> {<<"registry", Root>>}
      [] pc[p] \in {"rr_range", "sn_range"} -> {<<"cm", ss>> : ss \in fr[p].todo}
      [] pc[p] \in {"rep_gl", "sn_gl"} -> {<<"gm", fr[p].ss>>}
      [] pc[p] = "ctr_create" -> {<<"cm", fr[p].s>>}
      [] pc[p] = "gg_create" -> {<<"gm", fr[p].s>>}
      [] OTHER -> {}

WaitsOn(p, q) == q # p /\ \E l \in Wanted(p) : Holder(l) = q

(* The goroutines p waits on, directly or through others. *)
RECURSIVE WaitChain(_, _)
WaitChain(found, n) ==
    IF n = 0 THEN found
    ELSE WaitChain(found \cup {q \in Procs : \E r \in found : WaitsOn(r, q)}, n - 1)
WaitsOnChain(p) == WaitChain({q \in Procs : WaitsOn(p, q)}, Cardinality(Procs))

(* p is inside a call, or inside a pass of the timer. *)
InCall(p) == pc[p] \notin {"idle", "loop_select", "exited", "none"}

(* The next step of a goroutine that is inside a call. *)
CallStep(p) ==
    \/ CounterCreate(p) \/ GaugeCreate(p) \/ MetricReturn(p)
    \/ newSubscope(p) \/ SubscopeReturn(p)
    \/ SnapshotLock(p) \/ SnapshotRange(p) \/ SnapshotCounters(p)
    \/ SnapshotLoadCurr(p) \/ SnapshotLoadPrev(p) \/ SnapshotGaugesLock(p)
    \/ SnapshotGauges(p) \/ SnapshotReturn(p)
    \/ Continue(p)
    \/ ValueLoadCurr(p) \/ ValueLoadPrev(p) \/ ValueStore(p) \/ CounterReport(p)
    \/ GaugeSwap(p) \/ GaugeReport(p)

(* C28: the locks are taken in one order (status, registry, cm, gm): a     *)
(* goroutine never asks for a lock while it holds one that comes later or  *)
(* at the same place in the order; no goroutines wait on each other in a   *)
(* cycle; a goroutine that is inside a call can take its next step unless  *)
(* a lock it asks for is held by another goroutine; and no goroutine holds *)
(* a lock outside a call. So a call that cannot go on waits on a chain of  *)
(* goroutines whose last one can.                                          *)
C28_LockOrder ==
    \A p \in Procs :
        /\ \A h \in HeldBy(p), w \in Wanted(p) : LockRank(h[1]) < LockRank(w[1])
        /\ p \notin WaitsOnChain(p)
        /\ InCall(p) => ENABLED CallStep(p) \/ \E q \in Procs : WaitsOn(p, q)
        /\ ~InCall(p) => HeldBy(p) = {}

(* A final pass holds the root's status lock, the registry lock and the    *)
(* counter lock of the derived scope, while the timer waits for the status *)
(* lock and a Counter call on the derived scope waits for the counter lock. *)
C28_Witness ==
    \E p \in Callers, q \in Creators :
        /\ fr[p].op = "Close"
        /\ HeldBy(p) = {<<"status", Root>>, <<"registry", Root>>, <<"cm", 2>>}
        /\ WaitsOn(Timer, p) /\ pc[Timer] = "rl_lock"
        /\ WaitsOn(q, p) /\ pc[q] = "ctr_create"

-----------------------------------------------------------------------------
(* After Close: one goroutine calls Report and Close on the root, another  *)
(* calls Snapshot on it and the timer ticks; once closed is set, the       *)
(* producers call Inc and the second goroutine also calls Update.          *)

Observers == {2}

InitClosed ==
    /\ scopes = WithGauge(WithCounter(TreeOf(1)))
    /\ registry = RegistryOf(TreeOf(1))
    /\ ctrs = <<newCounter>>
    /\ ggs = <<newGauge>>
    /\ hist = [Hist0 EXCEPT !.incTotal = <<0>>, !.emitted = <<0>>,
                            !.sinceRead = <<0>>, !.lastEmit = <<0>>,
                            !.upd = <<"none">>, !.last = <<"none">>,
                            !.gaugeEmit = <<"none">>, !.gaugeCalls = <<0>>]
    /\ hasReporter = TRUE
    /\ reporter = NewReporter
    /\ fdb = NewFDB
    /\ keyDB = newKeyDB(PoolSize)
    /\ InitProcs(TRUE)

NextClosed ==
    \/ scopes[Root].closed /\ \E c \in 1 .. Len(ctrs) : Inc(c, 1)
    \/ scopes[Root].closed /\ \E p \in Observers, g \in 1 .. Len(ggs) :
                                 UpdateStore(p, g, "5.0")
    \/ \E p \in Observers : UpdateFlag(p)
    \/ \E p \in Observers : Snapshot(p, Root)
    \/ \E p \in Observers : SnapshotLock(p)
    \/ \E p \in Observers : SnapshotRange(p)
    \/ \E p \in Observers : SnapshotCounters(p)
    \/ \E p \in Observers : SnapshotLoadCurr(p)
    \/ \E p \in Observers : SnapshotLoadPrev(p)
    \/ \E p \in Observers : SnapshotGaugesLock(p)
    \/ \E p \in Observers : SnapshotGauges(p)
    \/ \E p \in Observers : SnapshotReturn(p)
    \/ \E p \in Callers : Report(p, Root)
    \/ \E p \in Procs : reportLoopRun(p)
    \/ \E p \in Procs : reportRegistryWithLock(p)
    \/ \E p \in Procs : RangeSubscopes(p)
    \/ \E p \in Procs : RangeCounters(p)
    \/ \E p \in Procs : ValueLoadCurr(p)
    \/ \E p \in Procs : ValueLoadPrev(p)
    \/ \E p \in Procs : ValueStore(p)
    \/ \E p \in Procs : CounterReport(p)
    \/ \E p \in Procs : GaugesLock(p)
    \/ \E p \in Procs : RangeGauges(p)
    \/ \E p \in Procs : GaugeSwap(p)
    \/ \E p \in Procs : GaugeReport(p)
    \/ \E p \in Procs : ScopeFlush(p)
    \/ \E p \in Procs : FlushPost(p)
    \/ \E p \in Procs : FlushReturn(p)
    \/ \E p \in Procs : RegistryUnlock(p)
    \/ \E p \in Procs : StatusUnlock(p)
    \/ LoopTick
    \/ LoopQuit
    \/ \E p \in Callers : Close(p)
    \/ \E p \in Callers : CloseLock(p)
    \/ \E p \in Callers : CloseUnlock(p)
    \/ \E p \in Callers : CloseReturn(p)

SpecClosed == InitClosed /\ [][NextClosed]_vars

(* p is in a pass it started from Report() or from a tick on the root. *)
RootReportPass(p) ==
    /\ fr[p].op \in {"Report", "Loop"}
    /\ fr[p].s = Root
    /\ pc[p] \in {"rr_lock", "rl_unlock"} \cup TraverseLocs

(* The step turns p away at the test of closed in reportLoopRun. *)
TurnedAway(p) ==
    /\ pc[p] = "rl_lock"
    /\ fr[p].s = Root
    /\ scopes[Root].closed
    /\ pc'[p] # "rl_lock"

(* C29: closed, once set on the root, stays set; a Report() call (or a     *)
(* tick) that reaches the test of closed after that returns at once, and   *)
(* its step changes no counter, no gauge and nothing in the reporter; no   *)
(* pass started by Report() or a tick on the root is under way while       *)
(* closed is set; and once Close has returned nothing is consumed any      *)
(* more: every counter's reported total and every gauge's flag can only    *)
(* show more pending, which Snapshot reads as curr - prev.                 *)
C29_ClosedAbsorbing ==
    /\ [][scopes[Root].closed => scopes'[Root].closed]_vars
    /\ [][\A p \in Procs :
            TurnedAway(p) =>
               /\ pc'[p] \in {"idle", "loop_select"}
               /\ ctrs' = ctrs /\ ggs' = ggs /\ reporter' = reporter
               /\ fr'[p].log = <<>>]_vars
    /\ [](\A p \in Procs : RootReportPass(p) => ~scopes[Root].closed)
    /\ [][hist.closeReturned =>
            /\ \A c \in 1 .. Len(ctrs) : ctrs'[c].prev = ctrs[c].prev
            /\ \A g \in 1 .. Len(ggs) : ggs'[g].updated >= ggs[g].updated
            /\ reporter' = reporter]_vars

(* Close has returned; since then an Inc and an Update were made; a        *)
(* Snapshot holds both, and a Report() call is at the test of closed.      *)
C29_Witness ==
    /\ hist.closeReturned
    /\ \E p \in Callers : pc[p] = "rl_lock" /\ fr[p].op = "Report"
    /\ \E q \in Observers :
          /\ pc[q] = "sn_ret"
          /\ \E e \in SnapshotCountersOf(q) :
                e.value > 0 /\ e.value = ctrs[e.obj].curr - ctrs[e.obj].prev
          /\ \E e \in SnapshotGaugesOf(q) : e.value = "5.0" /\ ggs[e.obj].updated = 1

-----------------------------------------------------------------------------
(* Report() on a derived scope after Close. *)

(* C30: once Close() on the root has returned, no goroutine is inside a    *)
(* method of the reporter, whichever scope of the tree Report() is called  *)
(* on.                                                                     *)
C30_NoPassAfterClose ==
    hist.closeReturned => \A p \in Procs : ~InReporter(p)

-----------------------------------------------------------------------------
(* Snapshots of a tree with the prefixes "a" and "a.b": the root made with *)
(* Prefix "a" and root.SubScope("b"). One goroutine creates counters and   *)
(* gauges in both scopes and calls Snapshot; the producers call Inc.       *)

PrefixTree ==
    LET root == newRootScope(<<"a">>, NilMap, emptyString)
        sub == subscopeObject(root, fullyQualifiedName(root, <<"b">>),
                              mergeRightTags(root.tags, NilMap))
    IN  <<root, sub>>

DottedNames == {<<"c">>, <<"b", ".", "c">>}

InitComplete ==
    /\ scopes = PrefixTree
    /\ registry = RegistryOf(PrefixTree)
    /\ ctrs = <<>>
    /\ ggs = <<>>
    /\ hist = Hist0
    /\ hasReporter = TRUE
    /\ reporter = NewReporter
    /\ fdb = NewFDB
    /\ keyDB = newKeyDB(PoolSize)
    /\ InitProcs(FALSE)

NextComplete ==
    \/ \E c \in 1 .. Len(ctrs) : Inc(c, 1)
    \/ \E p \in Callers, s \in ScopeIds, name \in DottedNames : CounterLookup(p, s, name)
    \/ \E p \in Callers : CounterCreate(p)
    \/ \E p \in Callers, name \in GaugeNames : GaugeLookup(p, Root, name)
    \/ \E p \in Callers : GaugeCreate(p)
    \/ \E p \in Callers : MetricReturn(p)
    \/ \E p \in Callers : Snapshot(p, Root)
    \/ \E p \in Callers : SnapshotLock(p)
    \/ \E p \in Callers : SnapshotRange(p)
    \/ \E p \in Callers : SnapshotCounters(p)
    \/ \E p \in Callers : SnapshotLoadCurr(p)
    \/ \E p \in Callers : SnapshotLoadPrev(p)
    \/ \E p \in Callers : SnapshotGaugesLock(p)
    \/ \E p \in Callers : SnapshotGauges(p)
    \/ \E p \in Callers : SnapshotReturn(p)

SpecComplete == InitComplete /\ [][NextComplete]_vars

(* C31: a snapshot handed to its caller has an entry of its own for every  *)
(* counter and every gauge of every scope of the registry, and the entry   *)
(* carries the value of that very metric.                                  *)
C31_SnapshotComplete ==
    \A p \in Threads :
        pc[p] = "sn_ret" =>
            /\ \A c \in 1 .. Len(ctrs) :
                  \E e \in SnapshotCountersOf(p) : e.obj = c /\ e.value = e.expect
            /\ \A g \in 1 .. Len(ggs) :
                  \E e \in SnapshotGaugesOf(p) : e.obj = g

-----------------------------------------------------------------------------
(* The values a pass hands to ReportGauge. *)

(* C32: every value given to ReportGauge was written by an Update. The     *)
(* word of a gauge changes only in the store of an Update, to the bits of  *)
(* its argument; each ReportGauge call carries the value the word holds at *)
(* the call, and the word is then no longer the initial one; the flag is   *)
(* raised, or a pass is about to report, only after such a store. So the   *)
(* value of every call is the argument of an Update that had stored it,    *)
(* and 0.0, which no Update here carries, is never emitted.                *)
C32_EmittedWasWritten ==
    /\ [][\A g \in 1 .. Len(ggs) :
            ggs'[g].curr # ggs[g].curr =>
               \E p \in Threads :
                  /\ pc[p] = "idle" /\ pc'[p] = "upd_flag"
                  /\ fr'[p].op = "Update" /\ fr'[p].obj = g
                  /\ ggs'[g].curr = Float64bits(fr'[p].x)]_vars
    /\ [][\A g \in 1 .. Len(ggs) :
            hist'.gaugeCalls[g] # hist.gaugeCalls[g] =>
               /\ hist'.gaugeEmit[g] = Float64frombits(ggs[g].curr)
               /\ ggs[g].curr # newGauge.curr]_vars
    /\ [](\A g \in 1 .. Len(ggs) :
            /\ hist.gaugeEmit[g] \in UpdateValues \cup {"none"}
            /\ (ggs[g].updated = 1 \/ \E p \in Procs : pc[p] = "gr_call" /\ fr[p].obj = g)
                  => ggs[g].curr # newGauge.curr)

(* A pass has emitted 5.0 for the gauge while the Update(5.0) that stored  *)
(* it has not yet raised the flag; the Update before it carried 7.5.       *)
C32_Witness ==
    /\ hist.gaugeEmit[1] = "5.0"
    /\ hist.last[1] = "7.5"
    /\ \E p \in Updaters : pc[p] = "upd_flag" /\ fr[p].x = "5.0" /\ fr[p].obj = 1

-----------------------------------------------------------------------------
(* Derivation as an algebra, under SpecTags. *)

(* The registry key subscope computes for s.Tagged(tags) and for           *)
(* s.SubScope(name): the call returns the scope the registry holds under   *)
(* that key, which it adds when there is none.                             *)
TaggedKey(s, tags) ==
    KeyMap(scopes[s].prefix, mergeRightTags(scopes[s].tags, copyMap(tags)))
SubScopeKey(s, name) ==
    KeyMap(fullyQualifiedName(scopes[s], name), mergeRightTags(scopes[s].tags, NilMap))

(* x is the scope the registry holds under key. *)
Registered(key, x) == key \in DOMAIN registry /\ registry[key] = x

(* C33: every Tagged and SubScope call returns the scope registered under  *)
(* the key of its receiver and argument. From any scope s with             *)
(* x = s.Tagged(t) and y = s.SubScope(n), x.SubScope(n) and y.Tagged(t)    *)
(* look up one key, so they return one instance; and with x = s.Tagged(t1) *)
(* the calls x.Tagged(t2) and s.Tagged(t1 overridden by t2) look up one    *)
(* key.                                                                    *)
C33_DerivationCommutes ==
    /\ \A p \in Threads :
          /\ TaggedDone(p) => Registered(TaggedKey(fr[p].s, fr[p].extra), fr[p].ret)
          /\ SubScopeDone(p) => Registered(SubScopeKey(fr[p].s, fr[p].name), fr[p].ret)
    /\ \A s, x, y \in ScopeIds, t \in ExtraInputs, n \in SubNames :
          Registered(TaggedKey(s, t), x) /\ Registered(SubScopeKey(s, n), y)
             => SubScopeKey(x, n) = TaggedKey(y, t)
    /\ \A s, x \in ScopeIds, t1, t2 \in ExtraInputs :
          Registered(TaggedKey(s, t1), x)
             => TaggedKey(x, t2) = TaggedKey(s, MakeMap(Overridden(t1.kv, t2.kv)))

(* root.Tagged({a:2, b:2}).Tagged({b:1}) has returned a third scope, the   *)
(* one registered for root.Tagged({a:2, b:1}).                             *)
C33_Witness ==
    \E p \in Threads :
        /\ TaggedDone(p)
        /\ fr[p].extra = MakeMap(<<"b">> :> <<"1">>)
        /\ Registered(TaggedKey(Root, MakeMap((<<"a">> :> <<"2">>) @@ (<<"b">> :> <<"2">>))),
                      fr[p].s)
        /\ fr[p].ret \notin {Root, fr[p].s}
        /\ Registered(TaggedKey(Root, MakeMap((<<"a">> :> <<"2">>) @@ (<<"b">> :> <<"1">>))),
                      fr[p].ret)

-----------------------------------------------------------------------------
(* The server's file store: FDB.UpdateCounter and FDB.UpdateGauge called
   concurrently on one FDB.  Each call takes the embedded mutex, runs its
   body and releases the mutex on return (defer).  Every memory access of a
   body is a step of its own.  The deltas are far from the int64 limits. *)

MaxStoreCalls == 3
StoreIds == {<<"a">>, <<"b">>}
StoreDeltas == {-1, 2}

(* m[id] of a Go map: the zero value for a missing key. *)
FDBLoad(m, id, zero) == IF id \in DOMAIN m THEN m[id] ELSE zero

(* m[id] = v of a Go map. *)
FDBStore(m, id, v) == [k \in DOMAIN m \cup {id} |-> IF k = id THEN v ELSE m[k]]

InitStore ==
    /\ scopes = <<newRootScope(<<>>, NilMap, emptyString)>>
    /\ registry = (KeyMap(scopes[Root].prefix, scopes[Root].tags) :> Root)
    /\ ctrs = <<>>
    /\ ggs = <<>>
    /\ hasReporter = FALSE
    /\ reporter = NewReporter
    /\ fdb = NewFDB
    /\ keyDB = newKeyDB(PoolSize)
    /\ InitProcs(FALSE)
    /\ hist = Hist0

(* A goroutine calls f.UpdateCounter(ctx, id, delta) and reaches f.Lock(). *)
FDBUpdateCounter(p, id, delta) ==
    /\ pc[p] = "idle"
    /\ hist.storeCalls < MaxStoreCalls
    /\ pc' = [pc EXCEPT ![p] = "fdb_lock"]
    /\ fr' = [fr EXCEPT ![p] = [Fr0 EXCEPT !.op = "UpdateCounter", !.id = id,
                                           !.delta = delta]]
    /\ hist' = [hist EXCEPT !.storeCalls = @ + 1,
                            !.storeSum = FDBStore(@, id, FDBLoad(@, id, 0) + delta)]
    /\ UNCHANGED <<scopes, registry, registryMu, ctrs, ggs, hasReporter, fdb, reporter,
                   keyDB>>

(* A goroutine calls f.UpdateGauge(ctx, id, value) and reaches f.Lock(). *)
FDBUpdateGauge(p, id, value) ==
    /\ pc[p] = "idle"
    /\ hist.storeCalls < MaxStoreCalls
    /\ pc' = [pc EXCEPT ![p] = "fdb_lock"]
    /\ fr' = [fr EXCEPT ![p] = [Fr0 EXCEPT !.op = "UpdateGauge", !.id = id, !.x = value]]
    /\ hist' = [hist EXCEPT !.storeCalls = @ + 1]
    /\ UNCHANGED <<scopes, registry, registryMu, ctrs, ggs, hasReporter, fdb, reporter,
                   keyDB>>

(* f.Lock() without the mutex: the body starts whoever is inside. *)
FDBLock_NoMutex(p) ==
    /\ pc[p] = "fdb_lock"
    /\ fdb' = [fdb EXCEPT !.mu = p]
    /\ pc' = [pc EXCEPT ![p] = IF fr[p].op = "UpdateCounter" THEN "fdb_cload"
                               ELSE "fdb_gstore"]
    /\ hist' = IF fr[p].op = "UpdateGauge"
               THEN [hist EXCEPT !.storeLast = FDBStore(@, fr[p].id, fr[p].x)]
               ELSE hist
    /\ UNCHANGED <<scopes, registry, registryMu, ctrs, ggs, hasReporter, reporter, keyDB,
                   fr>>

(* f.Lock(): the caller waits until the mutex is free and takes it.  The
   history records whose gauge value took the mutex last. *)
FDBLock(p) ==
    /\ pc[p] = "fdb_lock"
    /\ fdb.mu = NoProc
    /\ fdb' = [fdb EXCEPT !.mu = p]
    /\ pc' = [pc EXCEPT ![p] = IF fr[p].op = "UpdateCounter" THEN "fdb_cload"
                               ELSE "fdb_gstore"]
    /\ hist' = IF fr[p].op = "UpdateGauge"
               THEN [hist EXCEPT !.storeLast = FDBStore(@, fr[p].id, fr[p].x)]
               ELSE hist
    /\ UNCHANGED <<scopes, registry, registryMu, ctrs, ggs, hasReporter, reporter, keyDB,
                   fr>>

(* The read of f.counters[id] in f.counters[id] = f.counters[id] + delta. *)
FDBCounterLoad(p) ==
    /\ pc[p] = "fdb_cload"
    /\ fr' = [fr EXCEPT ![p].curr = FDBLoad(fdb.counters, fr[p].id, 0)]
    /\ pc' = [pc EXCEPT ![p] = "fdb_cstore"]
    /\ UNCHANGED <<scopes, registry, registryMu, ctrs, ggs, hasReporter, fdb, reporter,
                   keyDB, hist>>

(* The write of f.counters[id] in f.counters[id] = f.counters[id] + delta. *)
FDBCounterStore(p) ==
    /\ pc[p] = "fdb_cstore"
    /\ fdb' = [fdb EXCEPT !.counters = FDBStore(@, fr[p].id, fr[p].curr + fr[p].delta)]
    /\ pc' = [pc EXCEPT ![p] = "fdb_count"]
    /\ UNCHANGED <<scopes, registry, registryMu, ctrs, ggs, hasReporter, reporter, keyDB,
                   fr, hist>>

(* f.gauges[id] = value. *)
FDBGaugeStore(p) ==
    /\ pc[p] = "fdb_gstore"
    /\ fdb' = [fdb EXCEPT !.gauges = FDBStore(@, fr[p].id, fr[p].x)]
    /\ pc' = [pc EXCEPT ![p] = "fdb_count"]
    /\ UNCHANGED <<scopes, registry, registryMu, ctrs, ggs, hasReporter, reporter, keyDB,
                   fr, hist>>

(* The read of f.updateCount in f.updateCount++. *)
FDBCountLoad(p) ==
    /\ pc[p] = "fdb_count"
    /\ fr' = [fr EXCEPT ![p].prev = fdb.updateCount]
    /\ pc' = [pc EXCEPT ![p] = "fdb_incr"]
    /\ UNCHANGED <<scopes, registry, registryMu, ctrs, ggs, hasReporter, fdb, reporter,
                   keyDB, hist>>

(* The write of f.updateCount in f.updateCount++. *)
FDBCountStore(p) ==
    /\ pc[p] = "fdb_incr"
    /\ fdb' = [fdb EXCEPT !.updateCount = fr[p].prev + 1]
    /\ pc' = [pc EXCEPT ![p] = "fdb_ret"]
    /\ UNCHANGED <<scopes, registry, registryMu, ctrs, ggs, hasReporter, reporter, keyDB,
                   fr, hist>>

(* return f.updateCount: the result is read before the deferred Unlock. *)
FDBResult(p) ==
    /\ pc[p] = "fdb_ret"
    /\ fr' = [fr EXCEPT ![p].ret = fdb.updateCount]
    /\ pc' = [pc EXCEPT ![p] = "fdb_unlock"]
    /\ UNCHANGED <<scopes, registry, registryMu, ctrs, ggs, hasReporter, fdb, reporter,
                   keyDB, hist>>

(* The deferred f.Unlock(), and the result reaches the caller. *)
FDBUnlock(p) ==
    /\ pc[p] = "fdb_unlock"
    /\ fdb' = [fdb EXCEPT !.mu = NoProc]
    /\ pc' = [pc EXCEPT ![p] = "idle"]
    /\ hist' = [hist EXCEPT !.storeRet = Append(@, fr[p].ret)]
    /\ UNCHANGED <<scopes, registry, registryMu, ctrs, ggs, hasReporter, reporter, keyDB,
                   fr>>

NextStore ==
    \E p \in Threads :
        \/ \E id \in StoreIds, delta \in StoreDeltas : FDBUpdateCounter(p, id, delta)
        \/ \E id \in StoreIds, value \in UpdateValues : FDBUpdateGauge(p, id, value)
        \/ FDBLock(p)
        \/ FDBCounterLoad(p)
        \/ FDBCounterStore(p)
        \/ FDBGaugeStore(p)
        \/ FDBCountLoad(p)
        \/ FDBCountStore(p)
        \/ FDBResult(p)
        \/ FDBUnlock(p)

SpecStore == InitStore /\ [][NextStore]_vars

(* The calls whose body has not yet written the map / the count. *)
CounterPending(id) ==
    {p \in Threads : /\ fr[p].op = "UpdateCounter"
                     /\ fr[p].id = id
                     /\ pc[p] \in {"fdb_lock", "fdb_cload", "fdb_cstore"}}
GaugePending(id) ==
    {p \in Threads : /\ fr[p].op = "UpdateGauge"
                     /\ fr[p].id = id
                     /\ pc[p] = "fdb_gstore"}
CountPending ==
    {p \in Threads : pc[p] \in {"fdb_lock", "fdb_cload", "fdb_cstore", "fdb_gstore",
                                "fdb_count", "fdb_incr"}}
StoreQuiet == \A p \in Threads : pc[p] = "idle"

RECURSIVE PendingDelta(_)
PendingDelta(S) ==
    IF S = {} THEN 0
    ELSE LET p == CHOOSE q \in S : TRUE IN fr[p].delta + PendingDelta(S \ {p})

(* C34: under any interleaving of concurrent UpdateCounter and UpdateGauge
   calls on one FDB, counters[id] is the sum of the deltas of the calls that
   have written it (all calls, once none is in progress), gauges[id] is the
   value of the call that took the mutex last, updateCount is the number of
   calls that have counted (all calls, once none is in progress), and the
   returned values are pairwise different and, once no call is in progress,
   exactly 1..n for n calls. *)
C34_StoreAccounting ==
    /\ \A id \in StoreIds :
          /\ FDBLoad(fdb.counters, id, 0)
                = FDBLoad(hist.storeSum, id, 0) - PendingDelta(CounterPending(id))
          /\ GaugePending(id) = {} =>
                /\ (id \in DOMAIN fdb.gauges) = (id \in DOMAIN hist.storeLast)
                /\ FDBLoad(fdb.gauges, id, "none") = FDBLoad(hist.storeLast, id, "none")
    /\ fdb.updateCount = hist.storeCalls - Cardinality(CountPending)
    /\ \A i, j \in 1 .. Len(hist.storeRet) :
          i # j => hist.storeRet[i] # hist.storeRet[j]
    /\ \A i \in 1 .. Len(hist.storeRet) : hist.storeRet[i] \in 1 .. fdb.updateCount
    /\ StoreQuiet =>
          /\ Len(hist.storeRet) = hist.storeCalls
          /\ {hist.storeRet[i] : i \in 1 .. Len(hist.storeRet)} = 1 .. hist.storeCalls
          /\ \A id \in StoreIds :
                FDBLoad(fdb.counters, id, 0) = FDBLoad(hist.storeSum, id, 0)

(* Calls on the same id overlap: one UpdateCounter(a, 2) has returned 1;
   goroutine 2's UpdateCounter(a, -1) holds the mutex between its read and
   its write of the counter while goroutine 1's UpdateGauge on the same id
   waits at the mutex. *)
C34_Witness ==
    /\ hist.storeRet = <<1>>
    /\ pc[1] = "fdb_lock"
    /\ fr[1].op = "UpdateGauge"
    /\ fr[1].id = <<"a">>
    /\ pc[2] = "fdb_cstore"
    /\ fr[2].id = <<"a">>
    /\ fr[2].delta = -1
    /\ fr[2].curr = 2
    /\ fdb.mu = 2

====
